---- MODULE Spec2Model ----
(***************************************************************************)
(* BaseStore (packages/state/src/base-store.ts): the action-batching store *)
(* as a state machine over the JavaScript run-to-completion model.         *)
(*                                                                         *)
(* One synchronous segment of JavaScript runs at a time: `stack` is the    *)
(* call stack of the running segment (action bodies and notification       *)
(* loops).  Only the frame on top of the stack takes steps.  When the      *)
(* stack is empty the event loop picks any continuation that is ready (an  *)
(* `await` that can resume) or unrelated code that calls the store.        *)
(*                                                                         *)
(* An action body (`fn`) is arbitrary user code: it is modelled as a       *)
(* nondeterministic sequence of the operations the store offers to it      *)
(* (assign this.state, call another action with or without awaiting it,    *)
(* abort(), await something external, throw, return).  In the same way a   *)
(* filter returns true or false or throws, and a subscriber callback       *)
(* returns, throws, or calls an action.                                    *)
(***************************************************************************)
EXTENDS Integers, Sequences, FiniteSets, TLC

\* Bounds of the model.
MaxInv == 3     \* action invocations in one behaviour
MaxRef == 3     \* the last state object action bodies create in one behaviour
MaxActive == 2  \* invocations that have started and not settled, at any time

----------------------------------------------------------------------------
\* Values

\* `undefined` for the fields that hold a state object
Undef == [ref |-> 0, count |-> 0, by |-> {}]

\* The state passed to the constructor: `ref` is the identity of the object
\* (===), `by` the invocations whose assignments it carries.
State0 == [ref |-> 1, count |-> 0, by |-> {}]

\* `undefined` and a fresh `[]` for this.batchedActions
NoActions == [def |-> FALSE, items |-> <<>>]
EmptyActions == [def |-> TRUE, items |-> <<>>]

\* The type of an action record, by where the call comes from: a composed
\* action of the test store when unrelated code calls it, a simple one when
\* an action body calls it, another simple one when a subscriber callback
\* calls it
TypeOf(org) ==
    IF org = "body" THEN "INCREMENT"
    ELSE IF org = "sub" THEN "SET_TEXT"
    ELSE "BATCHED_ACTION"

\* What an action body can throw: an Error object or a falsy value
\* (`throw undefined`); and the two errors the store itself raises.
BodyErrors == {"Error", "falsy"}
ErrAborted == "Action aborted"
ErrNoAction == "No action is currently running to abort"

\* JavaScript truthiness of the caught value in `if (batchError)`; "none"
\* is the `undefined` batchError starts with
Truthy(e) == e \notin {"none", "falsy"}

\* No flush() has run in the batch; no History has been constructed
NoFlush == [def |-> FALSE]
NoHistory == [def |-> FALSE]

\* The registrations of the subscriber set: one with a filter, one without
Registrations == <<[id |-> 1, hasFilter |-> TRUE], [id |-> 2, hasFilter |-> FALSE]>>

----------------------------------------------------------------------------
VARIABLES
    state,            \* this.state
    nextRef,          \* identity of the next state object an action body creates
    subscribers,      \* this.subscribers, in insertion order
    batchCount,       \* this.batchCount
    batchedActions,   \* this.batchedActions
    initialState,     \* this.initialState
    abortController,  \* this.abortController: "undef", "live" or "aborted"
    invs,             \* the invocations of action callables, in the order they started
    stack,            \* the JavaScript call stack of the running synchronous segment
    seen,             \* the invocations whose assignments some notification has shown
    last,             \* the invocation whose promise the last step settled, if any
    unsubscribed,     \* the registrations whose unsubscribe function has been called
    flushed,          \* the checkpoint of the next notification, once flush() has run
    history,          \* the History overlay constructed on the store, if any
    ids,              \* BaseStore.ids, the registry of uniqueId
    scheme,           \* window.colorSchemeApi: the state of initiateColorScheme
    media,            \* matchMedia('(prefers-color-scheme: dark)') and its change event
    root,             \* document.documentElement: theme classes and style.colorScheme
    storage,          \* localStorage: the item 'color-scheme', and whether access throws
    smallHistory      \* a second History overlay constructed on the same store, if any

core == <<state, nextRef, subscribers, batchCount, batchedActions,
          initialState, abortController, invs, stack, seen>>
colour == <<scheme, media, root, storage>>
apart == <<ids, colour, smallHistory>>
overlay == <<unsubscribed, flushed, history, apart>>
vars == <<core, last, overlay>>

Top(s) == s[Len(s)]
Pop(s) == SubSeq(s, 1, Len(s) - 1)

\* Frames of the stack: the body of an invocation, or a forEach loop of
\* notifySubscribers with its three arguments (alias: `acts` is still the
\* array this.batchedActions refers to), the subscribers it has visited
\* (evals: what each did), and the one whose callback is running (cur)
InvFrame(i) ==
    [kind |-> "inv", inv |-> i, prev |-> Undef, next |-> Undef, acts |-> <<>>,
     alias |-> FALSE, visited |-> {}, cur |-> 0, evals |-> <<>>, threw |-> FALSE]
NotifyFrame(i, p, n, a) ==
    [kind |-> "notify", inv |-> i, prev |-> p, next |-> n, acts |-> a,
     alias |-> TRUE, visited |-> {}, cur |-> 0, evals |-> <<>>, threw |-> FALSE]

\* new Map(): no id is registered
NoIds == [x \in {} |-> <<>>]

\* window.colorSchemeApi before the client script has run
NoScheme == [def |-> FALSE]

\* The root element of a document the client script has not touched
NoTheme == [classes |-> {}, colorScheme |-> ""]

Init ==
    /\ state = State0
    /\ nextRef = 2
    /\ subscribers = Registrations
    /\ batchCount = 0
    /\ batchedActions = NoActions
    /\ initialState = Undef
    /\ abortController = "undef"
    /\ invs = <<>>
    /\ stack = <<>>
    /\ seen = {}
    /\ last = [id |-> 0]
    /\ unsubscribed = {}
    /\ flushed = NoFlush
    /\ history = NoHistory
    /\ ids = NoIds
    /\ scheme = NoScheme
    /\ media = [matches |-> FALSE, pending |-> FALSE]
    /\ root = NoTheme
    /\ storage = [ok |-> TRUE, item |-> "null"]
    /\ smallHistory = NoHistory

----------------------------------------------------------------------------
\* Helpers shared by the operations

\* A new invocation of an action callable.  pc is where it stands, sync
\* whether fn has not suspended yet, wait the invocation its body awaits, err
\* what fn threw or the promise rejected with.  What is observed of it while
\* it runs: `before`, the identity of the state object at the call;
\* `notified`, the notifications its finally has delivered; whether its body
\* has assigned this.state, called abort() ("first", or "mutated": after
\* an assignment), caught the failure of an action it awaited.
NewInv(org, p, aw) ==
    [origin |-> org, parent |-> p, awaited |-> aw, isRoot |-> (batchCount = 0),
     pc |-> "body", sync |-> TRUE, wait |-> 0, err |-> "none",
     before |-> state.ref, mutated |-> FALSE, aborted |-> "no",
     cancelled |-> FALSE, caught |-> FALSE, notified |-> 0]

\* What is kept of an invocation once its promise has settled: the value
\* it settled with and whether its body assigned this.state.  The rest of
\* what was observed of it is in `last` for the step that settles it.
Settled(r, e) ==
    [origin |-> "ext", parent |-> 0, awaited |-> FALSE, isRoot |-> FALSE,
     pc |-> "done", sync |-> FALSE, wait |-> 0, err |-> e,
     before |-> 0, mutated |-> r.mutated, aborted |-> "no",
     cancelled |-> FALSE, caught |-> FALSE, notified |-> 0]

\* Nothing is kept of the invocations of earlier batches once the store is
\* at rest and a new call starts.
Forgotten == Settled([mutated |-> FALSE], "none")

AtRest == stack = <<>> /\ \A k \in DOMAIN invs : invs[k].pc = "done"

\* `await this.someAction(...)` in a body: the caller whose callee has just
\* given the control back suspends too, and so on down the stack.
RECURSIVE Unwind(_, _)
Unwind(stk, iv) ==
    IF stk # <<>> /\ Top(stk).kind = "inv" /\ iv[Top(stk).inv].wait # 0
    THEN Unwind(Pop(stk), [iv EXCEPT ![Top(stk).inv].pc = "wait",
                                     ![Top(stk).inv].sync = FALSE])
    ELSE [stack |-> stk, invs |-> iv]

\* The promise of invocation i settles with e ("none": it resolves)
Settle(iv, i, e) == [iv EXCEPT ![i] = Settled(@, e)]

\* this.batchedActions.push(action): every loop that was given the same
\* array sees the new element
PushAll(stk, action) ==
    [k \in DOMAIN stk |->
        IF stk[k].kind = "notify" /\ stk[k].alias
        THEN [stk[k] EXCEPT !.acts = Append(@, action)]
        ELSE stk[k]]

\* this.batchedActions = undefined: the loops keep their array, the store
\* lets go of it
Unalias(stk) == [k \in DOMAIN stk |-> [stk[k] EXCEPT !.alias = FALSE]]

\* The subscribers a running forEach has still to visit (Set iteration:
\* insertion order, each entry once)
Pending(f) == SelectSeq(subscribers, LAMBDA r : r.id \notin f.visited)

\* The same catch/finally with a notifySubscribers that does not compare
\* the two state objects before it calls the subscribers
FinalizeAlwaysNotify(i, e, iv, stk) ==
    IF batchCount - 1 = 0 /\ initialState # Undef
    THEN IF Truthy(e)
         THEN LET u == Unwind(Unalias(stk), Settle(iv, i, e))
              IN [state |-> initialState, batchCount |-> 0,
                  batchedActions |-> NoActions,
                  initialState |-> Undef, abortController |-> "undef",
                  invs |-> u.invs, stack |-> u.stack, seen |-> seen]
         ELSE [state |-> state, batchCount |-> 0,
               batchedActions |-> batchedActions,
               initialState |-> initialState,
               abortController |-> abortController,
               invs |-> [iv EXCEPT ![i].pc = "notify", ![i].err = e,
                                   ![i].notified = @ + 1],
               stack |-> Append(stk, NotifyFrame(i, initialState, state,
                                                 batchedActions.items)),
               seen |-> seen \cup state.by]
    ELSE LET u == Unwind(stk, Settle(iv, i, e))
         IN [state |-> state, batchCount |-> batchCount - 1,
             batchedActions |-> batchedActions, initialState |-> initialState,
             abortController |-> abortController,
             invs |-> u.invs, stack |-> u.stack, seen |-> seen]

\* The catch/finally of the action callable for invocation i, entered with
\* batchError = e; iv and stk are invs and the stack without i's frame.
Finalize(i, e, iv, stk) ==
    IF batchCount - 1 = 0 /\ initialState # Undef
    THEN IF Truthy(e)
         THEN LET u == Unwind(Unalias(stk), Settle(iv, i, e))
              IN [state |-> initialState, batchCount |-> 0,
                  batchedActions |-> NoActions,
                  initialState |-> Undef, abortController |-> "undef",
                  invs |-> u.invs, stack |-> u.stack, seen |-> seen]
         ELSE IF initialState.ref = state.ref
              THEN LET u == Unwind(Unalias(stk), Settle(iv, i, e))
                   IN [state |-> state, batchCount |-> 0,
                       batchedActions |-> NoActions,
                       initialState |-> Undef, abortController |-> "undef",
                       invs |-> u.invs, stack |-> u.stack, seen |-> seen]
              ELSE [state |-> state, batchCount |-> 0,
                    batchedActions |-> batchedActions,
                    initialState |-> initialState,
                    abortController |-> abortController,
                    invs |-> [iv EXCEPT ![i].pc = "notify", ![i].err = e,
                                        ![i].notified = @ + 1],
                    stack |-> Append(stk, NotifyFrame(i, initialState, state,
                                                      batchedActions.items)),
                    seen |-> seen \cup state.by]
    ELSE LET u == Unwind(stk, Settle(iv, i, e))
         IN [state |-> state, batchCount |-> batchCount - 1,
             batchedActions |-> batchedActions, initialState |-> initialState,
             abortController |-> abortController,
             invs |-> u.invs, stack |-> u.stack, seen |-> seen]

\* The variables after r, the result of Finalize
Apply(r) ==
    /\ state' = r.state
    /\ batchCount' = r.batchCount
    /\ batchedActions' = r.batchedActions
    /\ initialState' = r.initialState
    /\ abortController' = r.abortController
    /\ invs' = r.invs
    /\ stack' = r.stack
    /\ seen' = r.seen
    /\ UNCHANGED <<nextRef, subscribers, apart>>

\* The synchronous head of the action callable, up to the call of fn, on
\* the stack stk of its caller; st is this.state
Prefix(org, p, aw, stk, iv, st) ==
    LET j == Len(invs) + 1
        action == [type |-> TypeOf(org), payload |-> j]
        old == IF batchedActions.def THEN batchedActions ELSE EmptyActions
    IN /\ Len(invs) < MaxInv
       /\ Cardinality({k \in DOMAIN invs : invs[k].pc # "done"}) < MaxActive
       /\ state' = st
       /\ initialState' = IF batchCount = 0 THEN st ELSE initialState
       /\ abortController' = IF abortController = "undef" THEN "live" ELSE abortController
       /\ batchedActions' = [old EXCEPT !.items = Append(@, action)]
       /\ batchCount' = batchCount + 1
       /\ invs' = Append(IF p # 0 /\ aw THEN [iv EXCEPT ![p].wait = j] ELSE iv,
                         NewInv(org, p, aw))
       /\ stack' = Append(IF batchedActions.def THEN PushAll(stk, action) ELSE stk,
                          InvFrame(j))
       /\ UNCHANGED <<nextRef, subscribers, apart>>

\* The body of invocation i is the running code
Running(i) ==
    /\ stack # <<>>
    /\ Top(stack).kind = "inv"
    /\ Top(stack).inv = i
    /\ invs[i].pc = "body"
    /\ invs[i].wait = 0

\* fn throws e: synchronously into the callable's catch when fn has not
\* suspended yet and is not an async function, else by rejecting its promise
Throws(i, e, sync) ==
    IF sync
    THEN Apply(Finalize(i, e, invs, Pop(stack)))
    ELSE LET u == Unwind(Pop(stack), [invs EXCEPT ![i].pc = "check", ![i].err = e,
                                                   ![i].sync = FALSE])
         IN /\ invs' = u.invs
            /\ stack' = u.stack
            /\ UNCHANGED <<state, nextRef, subscribers, batchCount, batchedActions,
                           initialState, abortController, seen, apart>>

----------------------------------------------------------------------------
\* Unrelated code calls an action of the store

ExtCall ==
    /\ stack = <<>>
    /\ IF AtRest
       THEN /\ Prefix("ext", 0, FALSE, stack, [k \in DOMAIN invs |-> Forgotten],
                      [state EXCEPT !.by = {}])
            /\ seen' = {}
       ELSE /\ Prefix("ext", 0, FALSE, stack, invs, state)
            /\ UNCHANGED seen

----------------------------------------------------------------------------
\* Steps of an action body

\* The same assignment built from the checkpoint of the batch instead of
\* the current state, which drops what other invocations assigned since
BodyMutateFromCheckpoint(i) ==
    /\ Running(i)
    /\ nextRef <= MaxRef
    /\ state' = [ref |-> nextRef, count |-> initialState.count + 1,
                 by |-> initialState.by \cup {i}]
    /\ nextRef' = nextRef + 1
    /\ invs' = [invs EXCEPT ![i].mutated = TRUE]
    /\ UNCHANGED <<subscribers, batchCount, batchedActions, initialState,
                   abortController, stack, seen, apart>>

\* this.state = { ...this.state, count: this.state.count + 1 }
BodyMutate(i) ==
    /\ Running(i)
    /\ nextRef <= MaxRef
    /\ state' = [ref |-> nextRef, count |-> state.count + 1, by |-> state.by \cup {i}]
    /\ nextRef' = nextRef + 1
    /\ invs' = [invs EXCEPT ![i].mutated = TRUE]
    /\ UNCHANGED <<subscribers, batchCount, batchedActions, initialState,
                   abortController, stack, seen, apart>>

\* this.other(...) or await this.other(...)
BodyCall(i, aw) ==
    /\ Running(i)
    /\ Prefix("body", i, aw, stack, invs, state)
    /\ UNCHANGED seen

\* The invocations whose body has called i, directly or through another
\* action, and have not settled
Callers(i) ==
    {k \in DOMAIN invs :
        /\ invs[k].pc # "done"
        /\ \/ invs[i].origin = "body" /\ invs[i].parent = k
           \/ \E m \in DOMAIN invs :
                 /\ invs[i].origin = "body" /\ invs[i].parent = m
                 /\ invs[m].pc # "done"
                 /\ invs[m].origin = "body" /\ invs[m].parent = k}

\* this.abort()
BodyAbort(i, sync) ==
    /\ Running(i)
    /\ IF abortController # "undef"
       THEN /\ abortController' = "aborted"
            /\ invs' = [k \in DOMAIN invs |->
                          IF k = i
                          THEN [invs[k] EXCEPT !.aborted =
                                  IF @ = "no"
                                  THEN (IF invs[i].mutated THEN "mutated" ELSE "first")
                                  ELSE @]
                          ELSE IF k \in Callers(i)
                          THEN [invs[k] EXCEPT !.cancelled = TRUE]
                          ELSE invs[k]]
            /\ UNCHANGED <<state, nextRef, subscribers, batchCount, batchedActions,
                           initialState, stack, seen, apart>>
       ELSE /\ sync => invs[i].sync
            /\ Throws(i, ErrNoAction, sync)

\* await of something that is not an action of this store
BodyAwait(i) ==
    /\ Running(i)
    /\ LET u == Unwind(Pop(stack), [invs EXCEPT ![i].pc = "ext", ![i].sync = FALSE])
       IN /\ invs' = u.invs
          /\ stack' = u.stack
    /\ UNCHANGED <<state, nextRef, subscribers, batchCount, batchedActions,
                   initialState, abortController, seen, apart>>

\* throw e
BodyThrow(i, e, sync) ==
    /\ Running(i)
    /\ sync => invs[i].sync
    /\ Throws(i, e, sync)

\* fn returns: the callable suspends at `await fn(payload)`
BodyReturn(i) ==
    /\ Running(i)
    /\ LET u == Unwind(Pop(stack), [invs EXCEPT ![i].pc = "check", ![i].sync = FALSE])
       IN /\ invs' = u.invs
          /\ stack' = u.stack
    /\ UNCHANGED <<state, nextRef, subscribers, batchCount, batchedActions,
                   initialState, abortController, seen, apart>>

----------------------------------------------------------------------------
\* Continuations the event loop runs when the stack is empty

\* the external await of a body resumes
ResumeBody(i) ==
    /\ stack = <<>>
    /\ invs[i].pc = "ext"
    /\ invs' = [invs EXCEPT ![i].pc = "body"]
    /\ stack' = <<InvFrame(i)>>
    /\ UNCHANGED <<state, nextRef, subscribers, batchCount, batchedActions,
                   initialState, abortController, seen, apart>>

\* `await this.other(...)` resumes: with the value, or with the rejection,
\* which the body either catches or lets escape
ResumeFromChild(i, catch) ==
    /\ stack = <<>>
    /\ invs[i].pc = "wait"
    /\ invs[invs[i].wait].pc = "done"
    /\ LET c == invs[invs[i].wait]
       IN IF c.err # "none" /\ ~catch
          THEN /\ invs' = [invs EXCEPT ![i].pc = "check", ![i].err = c.err, ![i].wait = 0]
               /\ UNCHANGED stack
          ELSE /\ invs' = [invs EXCEPT ![i].pc = "body", ![i].wait = 0,
                                       ![i].caught = @ \/ c.err # "none"]
               /\ stack' = <<InvFrame(i)>>
    /\ UNCHANGED <<state, nextRef, subscribers, batchCount, batchedActions,
                   initialState, abortController, seen, apart>>

\* the callable resumes after `await fn(payload)`: the abort check, then
\* catch and finally
Finish(i) ==
    /\ stack = <<>>
    /\ invs[i].pc = "check"
    /\ LET e == IF invs[i].err # "none" THEN invs[i].err
                ELSE IF abortController = "aborted" THEN ErrAborted
                ELSE "none"
       IN Apply(Finalize(i, e, invs, <<>>))

----------------------------------------------------------------------------
\* notifySubscribers: the forEach loop and the callbacks it runs

InLoop ==
    /\ stack # <<>>
    /\ Top(stack).kind = "notify"

\* The turn of a loop that calls the callback whatever the filter returned
NotifyStepUnfiltered(r, cb) ==
    /\ InLoop
    /\ Top(stack).cur = 0
    /\ Pending(Top(stack)) # <<>>
    /\ LET f == Top(stack)
           sub == Pending(f)[1]
           called == TRUE
           ev == [sub |-> sub.id, filt |-> IF sub.hasFilter THEN r ELSE "none",
                  called |-> called, acts |-> f.acts]
           threw == (sub.hasFilter /\ r = "throw") \/ (called /\ cb = "throw")
           g == [f EXCEPT !.evals = Append(@, ev), !.threw = @ \/ threw]
       IN /\ sub.hasFilter \/ r = "true"
          /\ called \/ cb = "return"
          /\ IF called /\ cb = "call"
             THEN /\ Prefix("sub", 0, FALSE,
                            [stack EXCEPT ![Len(stack)] = [g EXCEPT !.cur = sub.id]],
                            invs, state)
                  /\ UNCHANGED seen
             ELSE /\ stack' = [stack EXCEPT ![Len(stack)] =
                                  [g EXCEPT !.visited = @ \cup {sub.id}]]
                  /\ UNCHANGED <<state, nextRef, subscribers, batchCount, batchedActions,
                                 initialState, abortController, invs, seen, apart>>

\* One turn of the loop: the filter of the next subscriber is evaluated
\* (r is what it does); when it passes, the callback runs: it returns,
\* throws, or calls an action of the store (cb)
NotifyStep(r, cb) ==
    /\ InLoop
    /\ Top(stack).cur = 0
    /\ Pending(Top(stack)) # <<>>
    /\ LET f == Top(stack)
           sub == Pending(f)[1]
           called == ~sub.hasFilter \/ r = "true"
           ev == [sub |-> sub.id, filt |-> IF sub.hasFilter THEN r ELSE "none",
                  called |-> called, acts |-> f.acts]
           threw == (sub.hasFilter /\ r = "throw") \/ (called /\ cb = "throw")
           g == [f EXCEPT !.evals = Append(@, ev), !.threw = @ \/ threw]
       IN /\ sub.hasFilter \/ r = "true"
          /\ called \/ cb = "return"
          /\ IF called /\ cb = "call"
             THEN /\ Prefix("sub", 0, FALSE,
                            [stack EXCEPT ![Len(stack)] = [g EXCEPT !.cur = sub.id]],
                            invs, state)
                  /\ UNCHANGED seen
             ELSE /\ stack' = [stack EXCEPT ![Len(stack)] =
                                  [g EXCEPT !.visited = @ \cup {sub.id}]]
                  /\ UNCHANGED <<state, nextRef, subscribers, batchCount, batchedActions,
                                 initialState, abortController, invs, seen, apart>>

\* the callback that called an action returns
CbEnd ==
    /\ InLoop
    /\ Top(stack).cur # 0
    /\ LET f == Top(stack)
       IN stack' = [stack EXCEPT ![Len(stack)] =
                       [f EXCEPT !.cur = 0, !.visited = @ \cup {f.cur}]]
    /\ UNCHANGED <<state, nextRef, subscribers, batchCount, batchedActions,
                   initialState, abortController, invs, seen, apart>>

\* the loop is over: back in the finally of the callable, which clears the
\* batch fields; the promise of the invocation settles
NotifyDone ==
    /\ InLoop
    /\ Top(stack).inv # 0
    /\ Top(stack).cur = 0
    /\ Pending(Top(stack)) = <<>>
    /\ LET i == Top(stack).inv
           u == Unwind(Unalias(Pop(stack)), Settle(invs, i, invs[i].err))
       IN /\ invs' = u.invs
          /\ stack' = u.stack
    /\ abortController' = "undef"
    /\ batchedActions' = NoActions
    /\ initialState' = Undef
    /\ UNCHANGED <<state, nextRef, subscribers, batchCount, seen, apart>>

----------------------------------------------------------------------------
\* subscribe, the unsubscribe functions it returns, and restoreFromHistory,
\* called by unrelated code or by a subscriber callback that is running

MaxSubs == 3    \* registrations made in one behaviour

\* The registrations made so far, removed or not
Issued == {subscribers[n].id : n \in DOMAIN subscribers} \cup unsubscribed

\* What the last step did when it was a call of one of these operations:
\* the operation and what it found (the state object, the batch context)
Op(name, arg) ==
    [id |-> 0, op |-> name, arg |-> arg, prev |-> state.ref,
     ctx |-> <<batchCount, batchedActions, initialState, abortController>>]

\* this.subscribers.add({ callback, filter })
Add(hasFilter) ==
    /\ Cardinality(Issued) < MaxSubs
    /\ subscribers' = Append(subscribers,
                             [id |-> Cardinality(Issued) + 1, hasFilter |-> hasFilter])
    /\ last' = Op("subscribe", Cardinality(Issued) + 1)

\* An unsubscribe function that leaves the entry in the set
DeleteKeepsEntry(id) ==
    /\ id \in Issued
    /\ subscribers' = subscribers
    /\ unsubscribed' = unsubscribed \cup {id}
    /\ last' = Op("unsubscribe", id)

\* this.subscribers.delete(subscriber), by the function subscribe returned
\* for registration id
Delete(id) ==
    /\ id \in Issued
    /\ subscribers' = SelectSeq(subscribers, LAMBDA r : r.id # id)
    /\ unsubscribed' = unsubscribed \cup {id}
    /\ last' = Op("unsubscribe", id)

\* The state objects a caller of restoreFromHistory can hold: the one the
\* store was constructed with, the current one, the checkpoint of the batch
Restorable == ({State0, state, initialState}) \ {Undef}

\* What restoreFromHistory(s) does to the store, on the stack stk of its
\* caller: the assignment and the call of notifySubscribers
Restoring(s, stk) ==
    LET restoreAction == [type |-> "HISTORY_RESTORE", payload |-> 0]
    IN /\ state' = s
       /\ stack' = IF s.ref = state.ref THEN stk
                    ELSE Append(stk, [NotifyFrame(0, state, s, <<restoreAction>>)
                                         EXCEPT !.alias = FALSE])

\* A restoreFromHistory that notifies without comparing the two objects
RestoreAlwaysNotifies(s, stk) ==
    LET restoreAction == [type |-> "HISTORY_RESTORE", payload |-> 0]
    IN /\ state' = s
       /\ stack' = Append(stk, [NotifyFrame(0, state, s, <<restoreAction>>)
                                   EXCEPT !.alias = FALSE])
       /\ last' = Op("restore", s.ref)

\* restoreFromHistory(s) on the stack stk of its caller
RestoreFromHistory(s, stk) ==
    /\ Restoring(s, stk)
    /\ last' = Op("restore", s.ref)

\* unrelated code calls subscribe
Subscribe(hasFilter) ==
    /\ stack = <<>>
    /\ Add(hasFilter)
    /\ UNCHANGED <<state, nextRef, batchCount, batchedActions, initialState,
                   abortController, invs, stack, seen, unsubscribed, flushed, history, apart>>

\* unrelated code calls an unsubscribe function, for the first time or again
Unsubscribe(id) ==
    /\ stack = <<>>
    /\ Delete(id)
    /\ UNCHANGED <<state, nextRef, batchCount, batchedActions, initialState,
                   abortController, invs, stack, seen, flushed, history, apart>>

\* unrelated code calls restoreFromHistory, possibly while a batch is suspended
Restore(s) ==
    /\ stack = <<>>
    /\ RestoreFromHistory(s, stack)
    /\ UNCHANGED <<nextRef, subscribers, batchCount, batchedActions, initialState,
                   abortController, invs, seen, unsubscribed, flushed, history, apart>>

\* One turn of the loop in which the callback runs and does not return at
\* once: it goes on with the calls below
NotifyEnter(r) ==
    /\ InLoop
    /\ Top(stack).cur = 0
    /\ Pending(Top(stack)) # <<>>
    /\ LET f == Top(stack)
           sub == Pending(f)[1]
           ev == [sub |-> sub.id, filt |-> IF sub.hasFilter THEN r ELSE "none",
                  called |-> TRUE, acts |-> f.acts]
       IN /\ r = "true"
          /\ stack' = [stack EXCEPT ![Len(stack)] =
                          [f EXCEPT !.evals = Append(@, ev), !.cur = sub.id]]
    /\ UNCHANGED <<state, nextRef, subscribers, batchCount, batchedActions,
                   initialState, abortController, invs, seen, apart>>

\* The callback of a subscriber is the running code
InCallback ==
    /\ InLoop
    /\ Top(stack).cur # 0

\* the running callback calls subscribe
CbSubscribe(hasFilter) ==
    /\ InCallback
    /\ Add(hasFilter)
    /\ UNCHANGED <<state, nextRef, batchCount, batchedActions, initialState,
                   abortController, invs, stack, seen, unsubscribed, flushed, history, apart>>

\* the running callback calls an unsubscribe function: its own or another
CbUnsubscribe(id) ==
    /\ InCallback
    /\ Delete(id)
    /\ UNCHANGED <<state, nextRef, batchCount, batchedActions, initialState,
                   abortController, invs, stack, seen, flushed, history, apart>>

\* the running callback calls restoreFromHistory
CbRestore(s) ==
    /\ InCallback
    /\ RestoreFromHistory(s, stack)
    /\ UNCHANGED <<nextRef, subscribers, batchCount, batchedActions, initialState,
                   abortController, invs, seen, unsubscribed, flushed, history, apart>>

\* the loop of restoreFromHistory is over: the call returns
RestoreDone ==
    /\ InLoop
    /\ Top(stack).inv = 0
    /\ Top(stack).cur = 0
    /\ Pending(Top(stack)) = <<>>
    /\ stack' = Pop(stack)
    /\ UNCHANGED <<state, nextRef, subscribers, batchCount, batchedActions,
                   initialState, abortController, invs, seen, apart>>

\* code of the store class that is not inside an action calls abort() while
\* the nesting count is zero (with a batch suspended the call does what
\* BodyAbort does)
ExtAbort ==
    /\ stack = <<>>
    /\ batchCount = 0
    /\ IF abortController # "undef"
       THEN /\ abortController' = "aborted"
            /\ last' = Op("abort", "returned")
       ELSE /\ abortController' = abortController
            /\ last' = Op("abort", ErrNoAction)
    /\ UNCHANGED <<state, nextRef, subscribers, batchCount, batchedActions,
                   initialState, invs, stack, seen, unsubscribed, flushed, history, apart>>

\* this.state = saved, where saved is the object the batch started with
BodyRevert(i) ==
    /\ Running(i)
    /\ initialState # Undef
    /\ state # initialState
    /\ state' = initialState
    /\ UNCHANGED <<nextRef, subscribers, batchCount, batchedActions, initialState,
                   abortController, invs, stack, seen, apart>>

----------------------------------------------------------------------------
\* What the step observes of the invocation whose promise it settles: what
\* was observed of it while it ran; what its body threw (thrown: "none" when
\* fn returned, "sync" when the step itself is the throw); what the promise
\* settles with; the identity of the state object at that moment (after);
\* whether the step ends the batch (ends) and an invocation recorded in the
\* batch has failed (failed); and, when its finally has just run the
\* notification loop, the next-state it delivered (shown), the subscribers
\* the loop got to (evaluated) and whether a filter or a callback threw
\* (subThrew).
Observe ==
    LET S == {k \in DOMAIN invs : invs[k].pc # "done" /\ invs'[k].pc = "done"}
    IN IF S = {} THEN [id |-> 0]
       ELSE LET k == CHOOSE x \in S : TRUE
                r == invs[k]
                looped == InLoop /\ Top(stack).inv = k
            IN [id |-> k, origin |-> r.origin, parent |-> r.parent,
                awaited |-> r.awaited, isRoot |-> r.isRoot, before |-> r.before,
                mutated |-> r.mutated, aborted |-> r.aborted,
                cancelled |-> r.cancelled, caught |-> r.caught,
                notified |-> r.notified,
                thrown |-> IF r.pc = "body" THEN "sync" ELSE r.err,
                err |-> invs'[k].err, after |-> state'.ref,
                ends |-> batchCount' = 0,
                failed |-> \E n \in DOMAIN batchedActions.items :
                              /\ batchedActions.items[n].payload \in DOMAIN invs
                              /\ invs'[batchedActions.items[n].payload].err # "none",
                shown |-> IF looped THEN Top(stack).next.ref ELSE 0,
                evaluated |-> IF looped THEN Len(Top(stack).evals) ELSE 0,
                subThrew |-> looped /\ Top(stack).threw]

Observed == last' = Observe

\* The steps of the store's actions leave the subscriber registry's past,
\* the flush checkpoint and the History overlay alone
StoreOnly == UNCHANGED overlay

Next ==
    \/ ExtCall /\ Observed /\ StoreOnly
    \/ \E i \in DOMAIN invs : BodyMutate(i) /\ Observed /\ StoreOnly
    \/ \E i \in DOMAIN invs, aw \in BOOLEAN : BodyCall(i, aw) /\ Observed /\ StoreOnly
    \/ \E i \in DOMAIN invs, sync \in BOOLEAN : BodyAbort(i, sync) /\ Observed /\ StoreOnly
    \/ \E i \in DOMAIN invs : BodyAwait(i) /\ Observed /\ StoreOnly
    \/ \E i \in DOMAIN invs, e \in BodyErrors, sync \in BOOLEAN :
          BodyThrow(i, e, sync) /\ Observed /\ StoreOnly
    \/ \E i \in DOMAIN invs : BodyReturn(i) /\ Observed /\ StoreOnly
    \/ \E i \in DOMAIN invs : ResumeBody(i) /\ Observed /\ StoreOnly
    \/ \E i \in DOMAIN invs, catch \in BOOLEAN : ResumeFromChild(i, catch) /\ Observed /\ StoreOnly
    \/ \E i \in DOMAIN invs : Finish(i) /\ Observed /\ StoreOnly
    \/ \E r \in {"true", "false", "throw"}, cb \in {"return", "throw", "call"} :
          NotifyStep(r, cb) /\ Observed /\ StoreOnly
    \/ CbEnd /\ Observed /\ StoreOnly
    \/ NotifyDone /\ Observed /\ StoreOnly
    \/ ExtAbort

Spec == Init /\ [][Next]_vars

\* Bounds of the specifications below
MaxCalls == 2   \* action invocations in one behaviour
MaxDepth == 2   \* notification loops on the stack at one time

\* The store with a subscriber set that changes: calls from unrelated code
\* may overlap, action bodies assign, revert to the checkpoint, throw and
\* return, callbacks subscribe and unsubscribe
NextSubs ==
    \/ Len(invs) < MaxCalls /\ ExtCall /\ Observed /\ StoreOnly
    \/ \E i \in DOMAIN invs : BodyMutate(i) /\ Observed /\ StoreOnly
    \/ \E i \in DOMAIN invs : BodyRevert(i) /\ Observed /\ StoreOnly
    \/ \E i \in DOMAIN invs, e \in BodyErrors, sync \in BOOLEAN :
          BodyThrow(i, e, sync) /\ Observed /\ StoreOnly
    \/ \E i \in DOMAIN invs : BodyReturn(i) /\ Observed /\ StoreOnly
    \/ \E i \in DOMAIN invs : Finish(i) /\ Observed /\ StoreOnly
    \/ \E r \in {"true", "false", "throw"}, cb \in {"return", "throw"} :
          NotifyStep(r, cb) /\ Observed /\ StoreOnly
    \/ \E r \in {"true"} : NotifyEnter(r) /\ Observed /\ StoreOnly
    \/ CbEnd /\ Observed /\ StoreOnly
    \/ NotifyDone /\ Observed /\ StoreOnly
    \/ \E hasFilter \in BOOLEAN : Subscribe(hasFilter)
    \/ \E id \in Issued : Unsubscribe(id)
    \/ \E hasFilter \in BOOLEAN : CbSubscribe(hasFilter)
    \/ \E id \in Issued : CbUnsubscribe(id)

SpecSubs == Init /\ [][NextSubs]_vars

\* The store with restoreFromHistory called by unrelated code, also while a
\* batch is suspended, and by subscriber callbacks
NextRestore ==
    \/ Len(invs) < MaxCalls /\ ExtCall /\ Observed /\ StoreOnly
    \/ \E i \in DOMAIN invs : BodyMutate(i) /\ Observed /\ StoreOnly
    \/ \E i \in DOMAIN invs : BodyAwait(i) /\ Observed /\ StoreOnly
    \/ \E i \in DOMAIN invs, e \in BodyErrors, sync \in BOOLEAN :
          BodyThrow(i, e, sync) /\ Observed /\ StoreOnly
    \/ \E i \in DOMAIN invs : BodyReturn(i) /\ Observed /\ StoreOnly
    \/ \E i \in DOMAIN invs : ResumeBody(i) /\ Observed /\ StoreOnly
    \/ \E i \in DOMAIN invs : Finish(i) /\ Observed /\ StoreOnly
    \/ \E r \in {"true", "false", "throw"}, cb \in {"return", "throw"} :
          NotifyStep(r, cb) /\ Observed /\ StoreOnly
    \/ \E r \in {"true"} : NotifyEnter(r) /\ Observed /\ StoreOnly
    \/ CbEnd /\ Observed /\ StoreOnly
    \/ NotifyDone /\ Observed /\ StoreOnly
    \/ RestoreDone /\ Observed /\ StoreOnly
    \/ \E s \in Restorable : Restore(s)
    \/ \E s \in Restorable : Len(stack) < MaxDepth /\ CbRestore(s)

SpecRestore == Init /\ [][NextRestore]_vars

----------------------------------------------------------------------------
\* Properties

\* The notification loops that are running
Loops == {k \in DOMAIN stack : stack[k].kind = "notify"}

\* The action records of a sequence are in the order the invocations started
Ascending(a) == \A m, n \in DOMAIN a : m < n => a[m].payload < a[n].payload

\* The records of the calls made by unrelated code
TopRecords(a) == {n \in DOMAIN a : a[n].type = "BATCHED_ACTION"}

\* The step has settled the promise of an invocation
Settles == last.id # 0

\* C1: every action call made from outside the action bodies, whose body
\* and awaited nested actions succeed and whose body assigned the state, has
\* delivered exactly one notification when its promise resolves; and every
\* notification is delivered by such a call, with the state at the start of
\* that call as previous state and with the records of that call (first) and
\* of the actions called in it, in the order they started, and no others.
C1_OneNotificationPerRoot ==
    /\ (Settles /\ last.origin # "body" /\ last.err = "none" /\ ~last.caught
            /\ last.mutated)
        => last.notified = 1
    /\ \A k \in Loops :
          LET f == stack[k]
          IN invs[f.inv].err = "none" =>
             /\ invs[f.inv].origin # "body"
             /\ f.prev.ref = invs[f.inv].before
             /\ f.acts[1].payload = f.inv
             /\ Ascending(f.acts)
             /\ \A n \in DOMAIN f.acts : n > 1 => f.acts[n].type = "INCREMENT"

\* C2: a root call whose body throws rejects with the thrown value, and when
\* it has rejected the state object is the one the call found and the call
\* has notified no subscriber.
C2_ThrowRestores ==
    (Settles /\ last.isRoot /\ last.thrown # "none")
        => /\ last.err # "none"
           /\ (last.thrown # "sync" => last.err = last.thrown)
           /\ last.after = last.before
           /\ last.notified = 0

\* C3: a call whose body assigns the state, then calls abort() and returns,
\* rejects with 'Action aborted'; when it is the root call and ends the
\* batch, the state object is the one it found and no subscriber has been
\* notified.
C3_AbortRestores ==
    (Settles /\ last.aborted = "mutated" /\ last.thrown = "none")
        => /\ last.err = ErrAborted
           /\ (last.isRoot /\ last.ends)
                => (last.after = last.before /\ last.notified = 0)

\* C4: whenever no invocation is in progress, batchCount is 0 and
\* batchedActions, initialState and abortController are undefined.
C4_BatchContextClear ==
    AtRest => /\ batchCount = 0
              /\ batchedActions = NoActions
              /\ initialState = Undef
              /\ abortController = "undef"

\* C5: when the root call concludes a batch in which some invocation, root
\* or nested, caught by its caller or not, has failed, the state object is
\* the one the root found, no subscriber has been notified and the root call
\* rejects.
C5_AnyFailureFailsBatch ==
    (Settles /\ last.isRoot /\ last.ends /\ last.failed)
        => /\ last.err # "none"
           /\ last.after = last.before
           /\ last.notified = 0

\* C6: a call made by unrelated code while another call is suspended is a
\* batch of its own: when it resolves after assigning the state it has
\* delivered its own notification, when it fails and ends the batch the
\* state object is the one it found, and every notification carries the
\* record of exactly one call made by unrelated code.
C6_ConcurrentRootsDistinct ==
    /\ (Settles /\ last.origin = "ext" /\ ~last.isRoot /\ last.err = "none"
            /\ ~last.caught /\ last.mutated)
        => last.notified = 1
    /\ (Settles /\ last.origin = "ext" /\ ~last.isRoot /\ Truthy(last.err)
            /\ last.ends)
        => last.after = last.before
    /\ \A k \in Loops : Cardinality(TopRecords(stack[k].acts)) = 1

\* C7: no notification has shown, as part of its next state, an assignment
\* made by an invocation whose call rejected; and when every invocation has
\* settled the state carries no such assignment.
C7_OnlySuccessfulTransitions ==
    /\ \A k \in seen : ~(invs[k].pc = "done" /\ invs[k].err # "none")
    /\ AtRest => \A k \in state.by : invs[k].err = "none"

\* C8: when every invocation has settled and all of them resolved, the
\* state carries the assignment of every invocation whose body made one,
\* however the calls overlapped.
C8_NoMutationLost ==
    (AtRest /\ \A k \in DOMAIN invs : invs[k].err = "none")
        => \A k \in DOMAIN invs : invs[k].mutated => k \in state.by

\* Two calls made by unrelated code overlapped, both assigned the state,
\* both resolved, and the state carries both assignments.
C8_Witness ==
    /\ AtRest
    /\ Settles /\ last.id = 2 /\ last.origin = "ext" /\ ~last.isRoot /\ last.mutated
    /\ \A k \in DOMAIN invs : invs[k].err = "none"
    /\ state.by = {1, 2}
    /\ state.count = 2

\* C9: a notification in which a filter or a callback threw has still
\* evaluated every registered subscriber, has not called the subscriber
\* whose filter threw, and the call that delivered it resolves with the
\* state it delivered, or a later one, in place.
C9_ObserverErrorIsolation ==
    /\ (Settles /\ last.subThrew)
        => /\ last.evaluated = Len(subscribers)
           /\ last.err = "none"
           /\ last.after >= last.shown
    /\ \A k \in Loops : \A n \in DOMAIN stack[k].evals :
          stack[k].evals[n].filt = "throw" => ~stack[k].evals[n].called

\* C10: in every notification a subscriber with a filter is called exactly
\* when its filter returned true, a subscriber without a filter is always
\* called, whatever the other subscribers did, and a notification that
\* completes has evaluated every registered subscriber in turn.
C10_FilteredSubscriptions ==
    /\ \A k \in Loops : \A n \in DOMAIN stack[k].evals :
          LET ev == stack[k].evals[n]
              sub == subscribers[n]
          IN /\ ev.sub = sub.id
             /\ sub.hasFilter => (ev.called <=> ev.filt = "true")
             /\ ~sub.hasFilter => (ev.called /\ ev.filt = "none")
    /\ (Settles /\ last.shown # 0) => last.evaluated = Len(subscribers)

\* A notification in which the filter returned false and its subscriber was
\* not called, while the subscriber without a filter was called.
C10_Witness ==
    \E k \in Loops :
        /\ Len(stack[k].evals) = 2
        /\ stack[k].evals[1].filt = "false" /\ ~stack[k].evals[1].called
        /\ stack[k].evals[2].filt = "none" /\ stack[k].evals[2].called

\* ---------------------------------------------------------------------
\* flush(). The method is not part of base-store.ts as it stands here; it
\* is modelled from its description and from the tests that call it
\* (base-store.test.ts 451-646). The action callable and notifySubscribers
\* are the ones modelled above.

ErrNoBatch == "Cannot flush outside of an action batch"

FlushMarker == [type |-> "FLUSH", payload |-> 0]

\* The state the next notification of a flush starts from: the state at the
\* last flush of the batch, or the checkpoint of the batch
FlushCheckpoint == IF flushed.def THEN flushed.state ELSE initialState

\* The log holds an action recorded since the last flush
NewActions ==
    \E n \in DOMAIN batchedActions.items : batchedActions.items[n].type # "FLUSH"

\* What a step that calls flush() found and did
FlushOp(res) ==
    [id |-> 0, op |-> "flush", arg |-> res, prev |-> state.ref,
     ctx |-> <<batchCount, batchedActions, initialState, abortController>>,
     cp |-> FlushCheckpoint.ref, new |-> NewActions, was |-> flushed]

\* A flush() that reports whenever it is called
FlushAlways(i) ==
    /\ Running(i)
    /\ batchedActions' = [def |-> TRUE, items |-> <<FlushMarker>>]
    /\ flushed' = [def |-> TRUE, state |-> state]
    /\ stack' = Append(stack, [NotifyFrame(0, FlushCheckpoint, state,
                                           batchedActions.items)
                                  EXCEPT !.alias = FALSE])
    /\ last' = FlushOp("notified")
    /\ UNCHANGED <<state, nextRef, subscribers, batchCount, initialState,
                   abortController, invs, seen, unsubscribed, history, apart>>

\* The body of invocation i calls flush(): nothing happens when there is
\* neither a new action nor a new state object since the last flush;
\* otherwise the subscribers are notified with the log as it is, the log
\* becomes the single FLUSH record and the state becomes the checkpoint of
\* the next notification of a flush
Flush(i) ==
    /\ Running(i)
    /\ IF ~NewActions /\ FlushCheckpoint.ref = state.ref
       THEN /\ last' = FlushOp("silent")
            /\ UNCHANGED <<batchedActions, flushed, stack, apart>>
       ELSE /\ batchedActions' = [def |-> TRUE, items |-> <<FlushMarker>>]
            /\ flushed' = [def |-> TRUE, state |-> state]
            /\ stack' = IF FlushCheckpoint.ref = state.ref THEN stack
                        ELSE Append(stack, [NotifyFrame(0, FlushCheckpoint, state,
                                                        batchedActions.items)
                                               EXCEPT !.alias = FALSE])
            /\ last' = FlushOp(IF FlushCheckpoint.ref = state.ref
                               THEN "silent" ELSE "notified")
    /\ UNCHANGED <<state, nextRef, subscribers, batchCount, initialState,
                   abortController, invs, seen, unsubscribed, history, apart>>

\* code that is not inside an action calls flush() while no batch is open
ExtFlush ==
    /\ stack = <<>>
    /\ batchCount = 0
    /\ last' = FlushOp(ErrNoBatch)
    /\ UNCHANGED <<core, overlay>>

\* the loop of a flush is over: flush() returns to the body
FlushDone ==
    /\ InLoop
    /\ Top(stack).inv = 0
    /\ Top(stack).cur = 0
    /\ Pending(Top(stack)) = <<>>
    /\ stack' = Pop(stack)
    /\ UNCHANGED <<state, nextRef, subscribers, batchCount, batchedActions,
                   initialState, abortController, invs, seen, apart>>

\* What is kept of the flushes: nothing once the batch fields are cleared
FlushKept ==
    /\ flushed' = IF initialState' = Undef THEN NoFlush ELSE flushed
    /\ UNCHANGED <<unsubscribed, history, apart>>

\* The observation of a settling invocation, with whether its batch has
\* flushed
FlushObserved ==
    last' = IF Observe.id = 0 THEN Observe
            ELSE Observe @@ [flushes |-> flushed.def]

NextFlush ==
    \/ Len(invs) < MaxCalls /\ ExtCall /\ FlushObserved /\ FlushKept
    \/ \E i \in DOMAIN invs : BodyMutate(i) /\ FlushObserved /\ FlushKept
    \/ \E i \in DOMAIN invs : BodyCall(i, TRUE) /\ FlushObserved /\ FlushKept
    \/ \E i \in DOMAIN invs : BodyAwait(i) /\ FlushObserved /\ FlushKept
    \/ \E i \in DOMAIN invs, e \in BodyErrors, sync \in BOOLEAN :
          BodyThrow(i, e, sync) /\ FlushObserved /\ FlushKept
    \/ \E i \in DOMAIN invs : BodyReturn(i) /\ FlushObserved /\ FlushKept
    \/ \E i \in DOMAIN invs : ResumeBody(i) /\ FlushObserved /\ FlushKept
    \/ \E i \in DOMAIN invs, catch \in BOOLEAN :
          ResumeFromChild(i, catch) /\ FlushObserved /\ FlushKept
    \/ \E i \in DOMAIN invs : Finish(i) /\ FlushObserved /\ FlushKept
    \/ \E r \in {"true", "false"}, cb \in {"return", "throw"} :
          NotifyStep(r, cb) /\ FlushObserved /\ FlushKept
    \/ NotifyDone /\ FlushObserved /\ FlushKept
    \/ \E i \in DOMAIN invs : Flush(i)
    \/ FlushDone /\ FlushObserved /\ FlushKept
    \/ ExtFlush

SpecFlush == Init /\ [][NextFlush]_vars

\* ---------------------------------------------------------------------
\* History (history.ts): an observer of the store that keeps a log of state
\* objects and a cursor into it.

MaxHistory == 3   \* largest maxHistorySize option tried (the default is 50)

\* The last step was a call of the operation `name`
Did(name) == last.id = 0 /\ "op" \in DOMAIN last /\ last.op = name

\* The registration of the History's own callback, 0 when it has none
HistorySub == IF history.def THEN history.unsubscribe ELSE 0

\* The subscriber the running loop gets to next, 0 when there is none
NextSub ==
    IF InLoop /\ Top(stack).cur = 0 /\ Pending(Top(stack)) # <<>>
    THEN Pending(Top(stack))[1].id ELSE 0

\* A canUndo() that is true on the oldest entry too
canUndoAtOldest(h) == h.currentIndex >= 0

canUndo(h) == h.currentIndex > 0

canRedo(h) == h.currentIndex < Len(h.entries) - 1

\* this.entries[k] of JavaScript: the entry, or undefined
HasEntry(h, k) == k + 1 \in DOMAIN h.entries

captureInitialState(h) ==
    [h EXCEPT !.entries = Append(@, [state |-> h.initialState, actions |-> <<>>,
                                     label |-> "HISTORY_INITIAL_STATE"]),
              !.currentIndex = 0]

\* A captureState that keeps the entries after the cursor
captureStateKeepsFuture(h, st, actions, label) ==
    LET entry == [state |-> st, actions |-> actions, label |-> label]
        pushed == Append(h.entries, entry)
        excess == Len(pushed) - h.maxHistorySize
    IN IF Len(pushed) > h.maxHistorySize
       THEN [h EXCEPT !.entries = SubSeq(pushed, excess + 1, Len(pushed)),
                      !.currentIndex = Len(pushed) - 1 - excess]
       ELSE [h EXCEPT !.entries = pushed, !.currentIndex = Len(pushed) - 1]

\* captureState(actions, label) when the snapshot of the store is st
captureState(h, st, actions, label) ==
    LET entry == [state |-> st, actions |-> actions, label |-> label]
        kept == IF h.currentIndex < Len(h.entries) - 1
                THEN SubSeq(h.entries, 1, h.currentIndex + 1)
                ELSE h.entries
        pushed == Append(kept, entry)
        excess == Len(pushed) - h.maxHistorySize
    IN IF Len(pushed) > h.maxHistorySize
       THEN [h EXCEPT !.entries = SubSeq(pushed, excess + 1, Len(pushed)),
                      !.currentIndex = Len(pushed) - 1 - excess]
       ELSE [h EXCEPT !.entries = pushed, !.currentIndex = Len(pushed) - 1]

\* What a step that calls a method of the History found: the state object,
\* the cursor, and for a redo whether it follows an undo that
\* was performed, with nothing in between but the notification of that undo
HOp(name, res) ==
    [id |-> 0, op |-> name, arg |-> res, prev |-> state.ref,
     idx |-> history.currentIndex, len |-> Len(history.entries),
     follows |-> IF name = "redo" /\ Did("undo") /\ last.arg
                 THEN [def |-> TRUE, idx |-> last.idx, ref |-> last.prev]
                 ELSE [def |-> FALSE]]

\* A constructor that subscribes whatever autoCapture is
ConstructSubscribed(max, auto, custom) ==
    /\ stack = <<>>
    /\ invs = <<>>
    /\ ~history.def
    /\ Cardinality(Issued) < MaxSubs
    /\ LET id == Cardinality(Issued) + 1
           h == [def |-> TRUE, maxHistorySize |-> max, autoCapture |-> auto,
                 custom |-> custom, initialState |-> state, entries |-> <<>>,
                 currentIndex |-> -1, unsubscribe |-> 0,
                 isApplyingHistory |-> FALSE, clearing |-> FALSE]
       IN /\ history' = [captureInitialState(h) EXCEPT !.unsubscribe = id]
          /\ subscribers' = Append(subscribers, [id |-> id, hasFilter |-> FALSE])
    /\ last' = [id |-> 0]
    /\ UNCHANGED <<state, nextRef, batchCount, batchedActions, initialState,
                   abortController, invs, stack, seen, unsubscribed, flushed, apart>>

\* new History(store, { maxHistorySize, autoCapture, shouldCapture }), on a
\* store that has run no action yet
Construct(max, auto, custom) ==
    /\ stack = <<>>
    /\ invs = <<>>
    /\ ~history.def
    /\ auto => Cardinality(Issued) < MaxSubs
    /\ LET id == Cardinality(Issued) + 1
           h == [def |-> TRUE, maxHistorySize |-> max, autoCapture |-> auto,
                 custom |-> custom, initialState |-> state, entries |-> <<>>,
                 currentIndex |-> -1, unsubscribe |-> 0,
                 isApplyingHistory |-> FALSE, clearing |-> FALSE]
       IN /\ history' = IF auto
                        THEN [captureInitialState(h) EXCEPT !.unsubscribe = id]
                        ELSE captureInitialState(h)
          /\ subscribers' = IF auto
                            THEN Append(subscribers, [id |-> id, hasFilter |-> FALSE])
                            ELSE subscribers
    /\ last' = [id |-> 0]
    /\ UNCHANGED <<state, nextRef, batchCount, batchedActions, initialState,
                   abortController, invs, stack, seen, unsubscribed, flushed, apart>>

\* A capture() that appends nothing
CaptureNothing ==
    /\ stack = <<>>
    /\ history.def
    /\ last' = HOp("capture", TRUE)
    /\ UNCHANGED <<core, unsubscribed, flushed, history, apart>>

\* capture(): captureState([], label) by code outside the store
Capture ==
    /\ stack = <<>>
    /\ history.def
    /\ last' = HOp("capture", TRUE)
    /\ history' = captureState(history, state, <<>>, "none")
    /\ UNCHANGED <<core, unsubscribed, flushed, apart>>

\* A move of the cursor that does not restore the entry it moves to
MoveOnly(name, can, k) ==
    /\ stack = <<>>
    /\ history.def
    /\ last' = HOp(name, can)
    /\ IF can
       THEN /\ history' = [history EXCEPT !.currentIndex = k]
            /\ UNCHANGED <<state, stack, apart>>
       ELSE UNCHANGED <<history, state, stack, apart>>
    /\ UNCHANGED <<nextRef, subscribers, batchCount, batchedActions, initialState,
                   abortController, invs, seen, unsubscribed, flushed, apart>>

\* undo() and redo(), by code outside the store: when the move is possible
\* (can) the cursor goes to k and applyHistoryEntry restores the entry
\* there; isApplyingHistory stays set while the notification runs
Move(name, can, k) ==
    /\ stack = <<>>
    /\ history.def
    /\ last' = HOp(name, can)
    /\ IF can
       THEN IF HasEntry(history, k)
            THEN /\ Restoring(history.entries[k + 1].state, stack)
                 /\ history' = [history EXCEPT
                                  !.currentIndex = k,
                                  !.isApplyingHistory =
                                      history.entries[k + 1].state.ref # state.ref]
            ELSE /\ history' = [history EXCEPT !.currentIndex = k]
                 /\ UNCHANGED <<state, stack, apart>>
       ELSE UNCHANGED <<history, state, stack, apart>>
    /\ UNCHANGED <<nextRef, subscribers, batchCount, batchedActions, initialState,
                   abortController, invs, seen, unsubscribed, flushed, apart>>

Undo == history.def /\ Move("undo", canUndo(history), history.currentIndex - 1)

Redo == history.def /\ Move("redo", canRedo(history), history.currentIndex + 1)

\* the notification of applyHistoryEntry, or of clear, is over: the finally,
\* and for clear the captureInitialState() that follows it
HistoryDone ==
    /\ InLoop
    /\ history.def /\ history.isApplyingHistory
    /\ Top(stack).inv = 0
    /\ Top(stack).cur = 0
    /\ Pending(Top(stack)) = <<>>
    /\ stack' = Pop(stack)
    /\ history' = IF history.clearing
                  THEN captureInitialState([history EXCEPT !.isApplyingHistory = FALSE,
                                                           !.clearing = FALSE])
                  ELSE [history EXCEPT !.isApplyingHistory = FALSE]
    /\ UNCHANGED <<state, nextRef, subscribers, batchCount, batchedActions,
                   initialState, abortController, invs, seen, unsubscribed,
                   flushed, last, apart>>

\* A callback of the History that does not look at isApplyingHistory
HistoryNotifyUnguarded(should) ==
    /\ NextSub # 0
    /\ NextSub = HistorySub
    /\ should \/ history.custom
    /\ LET f == Top(stack)
           ev == [sub |-> NextSub, filt |-> "none", called |-> TRUE, acts |-> f.acts]
       IN /\ stack' = [stack EXCEPT ![Len(stack)] =
                          [f EXCEPT !.evals = Append(@, ev),
                                    !.visited = @ \cup {NextSub}]]
          /\ history' = IF ~should THEN history
                        ELSE captureState(history, state, f.acts, "none")
    /\ UNCHANGED <<state, nextRef, subscribers, batchCount, batchedActions,
                   initialState, abortController, invs, seen, unsubscribed, flushed, apart>>

\* The loop gets to the callback of the History: nothing while it applies
\* an entry of its own or when shouldCapture(actions) is false (should);
\* captureState(actions) otherwise
HistoryNotify(should) ==
    /\ NextSub # 0
    /\ NextSub = HistorySub
    /\ should \/ history.custom
    /\ LET f == Top(stack)
           ev == [sub |-> NextSub, filt |-> "none", called |-> TRUE, acts |-> f.acts]
       IN /\ stack' = [stack EXCEPT ![Len(stack)] =
                          [f EXCEPT !.evals = Append(@, ev),
                                    !.visited = @ \cup {NextSub}]]
          /\ history' = IF history.isApplyingHistory \/ ~should THEN history
                        ELSE captureState(history, state, f.acts, "none")
    /\ UNCHANGED <<state, nextRef, subscribers, batchCount, batchedActions,
                   initialState, abortController, invs, seen, unsubscribed, flushed, apart>>

\* A step of the notification of an undo or a redo settles no call and is
\* part of that undo or redo
LoopKeeps ==
    IF InLoop /\ Top(stack).inv = 0 THEN UNCHANGED last ELSE Observed

NextHistory ==
    \/ AtRest /\ Len(invs) < MaxCalls /\ ExtCall /\ Observed /\ StoreOnly
    \/ \E i \in DOMAIN invs : BodyMutate(i) /\ Observed /\ StoreOnly
    \/ \E i \in DOMAIN invs : BodyAwait(i) /\ Observed /\ StoreOnly
    \/ \E i \in DOMAIN invs, e \in BodyErrors, sync \in BOOLEAN :
          BodyThrow(i, e, sync) /\ Observed /\ StoreOnly
    \/ \E i \in DOMAIN invs : BodyReturn(i) /\ Observed /\ StoreOnly
    \/ \E i \in DOMAIN invs : ResumeBody(i) /\ Observed /\ StoreOnly
    \/ \E i \in DOMAIN invs : Finish(i) /\ Observed /\ StoreOnly
    \/ NextSub # HistorySub /\ NotifyStep("true", "return") /\ LoopKeeps /\ StoreOnly
    \/ NotifyDone /\ Observed /\ StoreOnly
    \/ \E should \in BOOLEAN : HistoryNotify(should) /\ LoopKeeps
    \/ \E max \in MaxHistory - 1 .. MaxHistory, auto, custom \in BOOLEAN :
          (custom => auto) /\ Construct(max, auto, custom)
    \/ Capture
    \/ Undo
    \/ Redo
    \/ HistoryDone

SpecHistory == Init /\ [][NextHistory]_vars

\* C11: no subscriber is ever called with a previous state and a next state
\* that are the same object; a root call that ends its batch on the state
\* object it found (its body assigned nothing, or assigned and put the
\* checkpoint object back) has notified nobody; and the step that subscribes
\* a callback does not call it.
C11_NoSpuriousNotification ==
    /\ \A k \in Loops : stack[k].prev.ref # stack[k].next.ref
    /\ (Settles /\ last.isRoot /\ last.ends /\ last.after = last.before)
        => last.notified = 0
    /\ Did("subscribe") =>
          \A k \in Loops : \A n \in DOMAIN stack[k].evals :
              stack[k].evals[n].sub # last.arg

\* A root call whose body assigned the state and then put the checkpoint
\* object back has resolved, ending its batch, without a notification.
C11_Witness ==
    /\ Settles /\ last.isRoot /\ last.ends /\ last.err = "none"
    /\ last.mutated /\ last.after = last.before
    /\ last.notified = 0

\* The subscribers a loop has got to
Reached(f) == {f.evals[n].sub : n \in DOMAIN f.evals}

\* C12: from the moment its unsubscribe function has been called, no loop
\* gets to a subscriber again (neither its filter nor its callback runs),
\* also when the call was made by the callback of another subscriber while
\* the loop was running; the call removes that one subscriber and no other;
\* a second call of the same function changes nothing in the store. A loop
\* that is over has got to every subscriber that is still registered.
C12_Unsubscribe ==
    [][/\ \A k \in Loops' : \A n \in DOMAIN stack'[k].evals :
              \/ k \in Loops /\ n \in DOMAIN stack[k].evals
              \/ stack'[k].evals[n].sub \notin unsubscribed
       /\ Did("unsubscribe")' =>
              /\ subscribers' = SelectSeq(subscribers, LAMBDA r : r.id # last'.arg)
              /\ UNCHANGED <<state, batchCount, batchedActions, initialState,
                             abortController, invs, stack, apart>>
              /\ last'.arg \in unsubscribed => UNCHANGED <<core, unsubscribed, apart>>
       /\ \A k \in Loops' :
              (stack'[k].cur = 0 /\ \A n \in DOMAIN subscribers' :
                                       subscribers'[n].id \in stack'[k].visited)
              => \A n \in DOMAIN subscribers' :
                    subscribers'[n].id \in Reached(stack'[k])]_vars

\* The callback of one subscriber has just unsubscribed another one that
\* the running loop had not got to yet, while a third stays registered.
C12_Witness ==
    /\ Did("unsubscribe") /\ InCallback
    /\ last.arg # Top(stack).cur
    /\ last.arg \notin Reached(Top(stack))
    /\ \E n \in DOMAIN subscribers : subscribers[n].id \notin Reached(Top(stack))

\* ---------------------------------------------------------------------
\* The other methods of History: jumpTo, clear, startAutoCapture,
\* stopAutoCapture, dispose.

MaxStarts == 2   \* subscriptions one History makes in one behaviour

\* What is left unchanged by a method of the History that is called by code
\* outside the store and changes only history, state and stack
HistoryFrame ==
    UNCHANGED <<nextRef, subscribers, batchCount, batchedActions, initialState,
                abortController, invs, seen, unsubscribed, flushed, apart>>

\* A jumpTo(index) that does not compare index with the length of the log:
\* beyond the log it moves the cursor, finds no entry to apply and returns true
JumpToUnbounded(index) ==
    /\ stack = <<>>
    /\ history.def
    /\ last' = HOp("jumpTo", ~(index < 0)) @@ [to |-> index]
    /\ IF index < 0
       THEN UNCHANGED <<history, state, stack, apart>>
       ELSE IF HasEntry(history, index)
       THEN /\ Restoring(history.entries[index + 1].state, stack)
            /\ history' = [history EXCEPT
                             !.currentIndex = index,
                             !.isApplyingHistory =
                                 history.entries[index + 1].state.ref # state.ref]
       ELSE /\ history' = [history EXCEPT !.currentIndex = index]
            /\ UNCHANGED <<state, stack, apart>>
    /\ HistoryFrame

\* jumpTo(index)
JumpTo(index) ==
    /\ stack = <<>>
    /\ history.def
    /\ LET valid == ~(index < 0 \/ index >= Len(history.entries))
       IN /\ last' = HOp("jumpTo", valid) @@ [to |-> index]
          /\ IF valid
             THEN /\ Restoring(history.entries[index + 1].state, stack)
                  /\ history' = [history EXCEPT
                                   !.currentIndex = index,
                                   !.isApplyingHistory =
                                       history.entries[index + 1].state.ref # state.ref]
             ELSE UNCHANGED <<history, state, stack, apart>>
    /\ HistoryFrame

\* A clear() that seeds the log with the current state of the store
ClearToCurrent ==
    /\ stack = <<>>
    /\ history.def
    /\ last' = HOp("clear", TRUE)
    /\ history' = captureInitialState([history EXCEPT !.entries = <<>>,
                                                      !.currentIndex = -1,
                                                      !.initialState = state])
    /\ UNCHANGED <<state, stack, apart>>
    /\ HistoryFrame

\* clear(): the log is emptied, the store is given the state the History
\* was constructed on, and when that notification is over (HistoryDone) the
\* log is seeded again
Clear ==
    /\ stack = <<>>
    /\ history.def
    /\ last' = HOp("clear", TRUE)
    /\ Restoring(history.initialState, stack)
    /\ LET h == [history EXCEPT !.entries = <<>>, !.currentIndex = -1]
       IN history' = IF history.initialState.ref # state.ref
                     THEN [h EXCEPT !.isApplyingHistory = TRUE, !.clearing = TRUE]
                     ELSE captureInitialState(h)
    /\ HistoryFrame

\* A startAutoCapture() that subscribes whether it is subscribed or not
StartAgain ==
    /\ stack = <<>>
    /\ history.def
    /\ last' = HOp("start", TRUE)
    /\ Cardinality(Issued) < Len(Registrations) + MaxStarts
    /\ subscribers' = Append(subscribers, [id |-> Cardinality(Issued) + 1,
                                           hasFilter |-> FALSE])
    /\ history' = [history EXCEPT !.unsubscribe = Cardinality(Issued) + 1]
    /\ UNCHANGED <<state, nextRef, batchCount, batchedActions, initialState,
                   abortController, invs, stack, seen, unsubscribed, flushed, apart>>

\* startAutoCapture()
StartAutoCapture ==
    /\ stack = <<>>
    /\ history.def
    /\ last' = HOp("start", history.unsubscribe = 0)
    /\ IF history.unsubscribe # 0
       THEN UNCHANGED <<subscribers, history, apart>>
       ELSE /\ Cardinality(Issued) < Len(Registrations) + MaxStarts
            /\ subscribers' = Append(subscribers, [id |-> Cardinality(Issued) + 1,
                                                   hasFilter |-> FALSE])
            /\ history' = [history EXCEPT !.unsubscribe = Cardinality(Issued) + 1]
    /\ UNCHANGED <<state, nextRef, batchCount, batchedActions, initialState,
                   abortController, invs, stack, seen, unsubscribed, flushed, apart>>

\* What stopAutoCapture() does to the subscription of h
Stopped(h) ==
    /\ subscribers' = SelectSeq(subscribers, LAMBDA r : r.id # h.unsubscribe)
    /\ unsubscribed' = IF h.unsubscribe # 0 THEN unsubscribed \cup {h.unsubscribe}
                       ELSE unsubscribed

\* stopAutoCapture()
StopAutoCapture ==
    /\ stack = <<>>
    /\ history.def
    /\ last' = HOp("stop", history.unsubscribe # 0)
    /\ Stopped(history)
    /\ history' = [history EXCEPT !.unsubscribe = 0]
    /\ UNCHANGED <<state, nextRef, batchCount, batchedActions, initialState,
                   abortController, invs, stack, seen, flushed, apart>>

\* dispose()
Dispose ==
    /\ stack = <<>>
    /\ history.def
    /\ last' = HOp("dispose", TRUE)
    /\ Stopped(history)
    /\ history' = [history EXCEPT !.unsubscribe = 0, !.entries = <<>>,
                                  !.currentIndex = -1]
    /\ UNCHANGED <<state, nextRef, batchCount, batchedActions, initialState,
                   abortController, invs, stack, seen, flushed, apart>>

NextHistoryOps ==
    \/ AtRest /\ Len(invs) < MaxCalls /\ ExtCall /\ Observed /\ StoreOnly
    \/ \E i \in DOMAIN invs : BodyMutate(i) /\ Observed /\ StoreOnly
    \/ \E i \in DOMAIN invs : BodyReturn(i) /\ Observed /\ StoreOnly
    \/ \E i \in DOMAIN invs : Finish(i) /\ Observed /\ StoreOnly
    \/ \E cb \in {"return", "throw"} :
          NextSub # HistorySub /\ NotifyStep("true", cb) /\ LoopKeeps /\ StoreOnly
    \/ NotifyDone /\ Observed /\ StoreOnly
    \/ \E should \in BOOLEAN : HistoryNotify(should) /\ LoopKeeps
    \/ \E max \in 0 .. MaxHistory, auto \in BOOLEAN : Construct(max, auto, FALSE)
    \/ Capture
    \/ Undo
    \/ Redo
    \/ HistoryDone
    \/ \E index \in -1 .. MaxHistory : JumpTo(index)
    \/ Clear
    \/ StartAutoCapture
    \/ StopAutoCapture
    \/ Dispose

SpecHistoryOps == Init /\ [][NextHistoryOps]_vars

\* The loop on top of the stack has been started by restoreFromHistory with
\* the previous state p and the next state n, and has called nobody yet
RestoreLoop(p, n) ==
    /\ InLoop
    /\ Top(stack).inv = 0 /\ Top(stack).cur = 0 /\ Top(stack).evals = <<>>
    /\ Top(stack).prev.ref = p /\ Top(stack).next.ref = n
    /\ Len(Top(stack).acts) = 1
    /\ Top(stack).acts[1].type = "HISTORY_RESTORE"

\* C13: when restoreFromHistory(s) has been called, by unrelated code (a
\* batch may be suspended at an await) or by a running callback, the state
\* is s, the nesting count, the action log, the checkpoint and the abort
\* signal are what they were, and a notification with the single record
\* HISTORY_RESTORE, the state found as previous state and s as next state
\* has started exactly when s is not the object that was the state.
C13_RestoreFromHistory ==
    Did("restore") =>
        /\ state.ref = last.arg
        /\ <<batchCount, batchedActions, initialState, abortController>> = last.ctx
        /\ (last.arg # last.prev) <=> RestoreLoop(last.prev, last.arg)
        /\ \A k \in Loops : stack[k].prev.ref # stack[k].next.ref

\* restoreFromHistory has been called with the checkpoint of a batch that is
\* suspended after it assigned the state, and the notification has started.
C13_Witness ==
    /\ Did("restore") /\ batchCount > 0 /\ initialState # Undef
    /\ last.arg = initialState.ref /\ last.arg # last.prev
    /\ RestoreLoop(last.prev, last.arg)

\* C14: when code outside any action calls abort() while the nesting count
\* is zero, the call throws 'No action is currently running to abort', and
\* the state object, the nesting count, the action log, the checkpoint and
\* the abort signal are what they were (so the next action opens its own
\* signal).
C14_AbortWithoutAction ==
    (Did("abort") /\ last.ctx[1] = 0) =>
        /\ last.arg = ErrNoAction
        /\ state.ref = last.prev
        /\ <<batchCount, batchedActions, initialState, abortController>> = last.ctx

\* C15: abort() called by the body of a running action returns normally (no
\* call settles with 'No action is currently running to abort'); a call
\* whose body calls abort(), then assigns the state and returns, rejects
\* with 'Action aborted' only then; when it is the root call and ends the
\* batch, the state object is the one it found, the assignments made after
\* abort() included, and no subscriber has been notified.
C15_AbortNotPreemptive ==
    Settles =>
        /\ last.err # ErrNoAction
        /\ (last.aborted = "first" /\ last.mutated /\ last.thrown = "none")
            => /\ last.err = ErrAborted
               /\ (last.isRoot /\ last.ends)
                    => (last.after = last.before /\ last.notified = 0)

\* C16: when the root call of a batch settles, ending the batch, after an
\* action called by its body (directly or through another nested action)
\* has called abort(), and its own body threw nothing but what that brought
\* about, it rejects with 'Action aborted', the state object is the one the
\* root found (whatever the nested actions assigned) and no subscriber has
\* been notified.
C16_BatchWideCancellation ==
    (/\ Settles /\ last.isRoot /\ last.ends /\ last.cancelled
     /\ last.thrown \in {"none", ErrAborted})
        => /\ last.err = ErrAborted
           /\ last.after = last.before
           /\ last.notified = 0

\* The loop on top of the stack stk has not called anybody yet
Fresh(stk) ==
    /\ stk # <<>>
    /\ Top(stk).kind = "notify"
    /\ Top(stk).cur = 0 /\ Top(stk).evals = <<>> /\ Top(stk).visited = {}

\* C17: every notification that starts in a batch, by a flush or by the end
\* of the batch, has as previous state the state at the last flush of the
\* batch (the state the batch started with when it has not flushed) and as
\* next state the current state: the pairs of one batch form a chain.
C17_FlushChain ==
    [][(Fresh(stack') /\ ~(Fresh(stack) /\ Len(stack') = Len(stack)))
        => /\ Top(stack').prev.ref = FlushCheckpoint.ref
           /\ Top(stack').next.ref = state'.ref]_vars

\* C18: a flush() called when no action has been recorded and the state
\* object has not been replaced since the last flush (since the batch
\* started when there was none) starts no notification and changes nothing;
\* right after a flush that has notified, that is the case.
C18_FlushDeduplication ==
    /\ (Did("flush") /\ ~last.new /\ last.cp = last.prev)
        => /\ last.arg = "silent"
           /\ ~Fresh(stack)
           /\ state.ref = last.prev
           /\ flushed = last.was
           /\ <<batchCount, batchedActions, initialState, abortController>> = last.ctx
    /\ (Did("flush") /\ last.arg = "notified")
        => /\ Fresh(stack)
           /\ Top(stack).prev.ref # Top(stack).next.ref
           /\ ~NewActions /\ FlushCheckpoint.ref = state.ref

\* A second flush() has just been called right after one that notified, and
\* has been silent.
C18_Witness ==
    /\ Did("flush") /\ last.arg = "silent"
    /\ ~last.new /\ last.cp = last.prev
    /\ last.was.def /\ last.cp # initialState.ref
    /\ batchCount > 0

\* C19: when the root call of a batch that has flushed rejects, ending the
\* batch, the state object is the one the batch started with and the end of
\* the batch has notified nobody.
C19_FlushThenFailure ==
    (Settles /\ last.isRoot /\ last.ends /\ last.flushes /\ last.err # "none")
        => /\ last.after = last.before
           /\ last.notified = 0

\* The state object of the entry the cursor is on
CurrentState == history.entries[history.currentIndex + 1].state

\* What C20 says of one undo() or redo() that was possible (can) or not,
\* from its call to the end of its notification
Moved(can, k) ==
    IF can
    THEN /\ last.arg
         /\ history.currentIndex = k
         /\ state.ref = CurrentState.ref
         /\ Len(history.entries) = last.len
    ELSE /\ ~last.arg
         /\ history.currentIndex = last.idx
         /\ state.ref = last.prev
         /\ Len(history.entries) = last.len

\* C20 (as claimed): undo() returns true, moves the cursor one entry back and
\* makes that entry's state the store state when the cursor is above 0, and
\* otherwise returns false and changes nothing; redo() likewise towards the
\* last entry; a redo() that follows an undo() puts the cursor and the store
\* state back to what they were before the undo.
C20_UndoRedo ==
    /\ Did("undo") => Moved(last.idx > 0, last.idx - 1)
    /\ Did("redo") => Moved(last.idx < last.len - 1, last.idx + 1)
    /\ (Did("redo") /\ last.follows.def)
        => /\ last.arg
           /\ history.currentIndex = last.follows.idx
           /\ state.ref = last.follows.ref

\* C20 (amended): the same for one undo() and one redo(); a redo() that
\* follows an undo() puts the cursor back where it was before the undo and
\* makes the state of the entry there the store state.
C20_UndoRedoToEntry ==
    /\ Did("undo") => Moved(last.idx > 0, last.idx - 1)
    /\ Did("redo") => Moved(last.idx < last.len - 1, last.idx + 1)
    /\ (Did("redo") /\ last.follows.def)
        => /\ last.arg
           /\ history.currentIndex = last.follows.idx
           /\ state.ref = CurrentState.ref

\* A redo() has followed an undo() that was called when the store state was
\* not the state of the entry under the cursor, and its notification is over.
C20_Witness ==
    /\ Did("redo") /\ last.follows.def /\ last.arg
    /\ stack = <<>>
    /\ history.currentIndex = last.follows.idx
    /\ state.ref # last.follows.ref

\* ---------------------------------------------------------------------
\* BaseStore.uniqueId(id, url).  Strings are sequences of characters, so
\* that `${id}@${pathname}` and id.includes('@') are computed as the code
\* computes them.

MaxIdLen == 2    \* length of the ids passed to uniqueId

IdChars == {"a", "@"}

\* The ids passed: every string of at most MaxIdLen characters
IdStrings == UNION {[1 .. n -> IdChars] : n \in 0 .. MaxIdLen}

\* The pathnames of the URLs passed
Pathnames == {<<"/", "x">>, <<"/", "y">>, <<"/", "@">>}

\* The URLs passed: a string new URL() rejects (ok is FALSE), or one it
\* parses into a pathname and the rest (origin, search, hash)
Urls == [ok : BOOLEAN, pathname : Pathnames, search : {"", "?t=1"}]

\* id.includes('@')
Includes(str, ch) == \E k \in DOMAIN str : str[k] = ch

\* `${id}@${pathname}`
KeyOf(id, pathname) == id \o <<"@">> \o pathname

\* What a call of uniqueId found and did: its arguments, the registry before
\* it, what it threw and what it returned
IdOp(id, url, threw) ==
    [id |-> 0, op |-> "uniqueId", name |-> id, url |-> url, was |-> ids,
     threw |-> threw,
     ret |-> IF threw = "none" THEN [def |-> TRUE, val |-> id] ELSE [def |-> FALSE]]

\* A uniqueId that registers the id before it compares it with the registry
UniqueIdSetsFirst(id, url) ==
    /\ stack = <<>>
    /\ LET key == KeyOf(id, url.pathname)
           existing == IF id \in DOMAIN ids THEN ids[id] ELSE <<>>
       IN IF ~url.ok
          THEN last' = IdOp(id, url, "TypeError") /\ UNCHANGED ids
          ELSE IF Includes(id, "@")
          THEN last' = IdOp(id, url, "Error: cannot contain @") /\ UNCHANGED ids
          ELSE /\ ids' = [x \in DOMAIN ids \cup {id} |-> IF x = id THEN key ELSE ids[x]]
               /\ last' = IdOp(id, url, IF existing # <<>> /\ existing # key
                                        THEN "Error: Duplicate id" ELSE "none")
    /\ UNCHANGED <<core, unsubscribed, flushed, history, colour, smallHistory>>

\* BaseStore.uniqueId(id, url)
UniqueId(id, url) ==
    /\ stack = <<>>
    /\ LET key == KeyOf(id, url.pathname)
           existing == IF id \in DOMAIN ids THEN ids[id] ELSE <<>>
       IN IF ~url.ok
          THEN last' = IdOp(id, url, "TypeError") /\ UNCHANGED ids
          ELSE IF Includes(id, "@")
          THEN last' = IdOp(id, url, "Error: cannot contain @") /\ UNCHANGED ids
          ELSE IF existing # <<>> /\ existing # key
          THEN last' = IdOp(id, url, "Error: Duplicate id") /\ UNCHANGED ids
          ELSE /\ ids' = [x \in DOMAIN ids \cup {id} |-> IF x = id THEN key ELSE ids[x]]
               /\ last' = IdOp(id, url, "none")
    /\ UNCHANGED <<core, unsubscribed, flushed, history, colour, smallHistory>>

NextIds ==
    \/ \E id \in IdStrings, url \in Urls : UniqueId(id, url)

SpecIds == Init /\ [][NextIds]_vars

\* ---------------------------------------------------------------------
\* The color-scheme client (client.ts): initiateColorScheme with the
\* loadConfig, saveConfig and cssClass the script passes to it.

MaxListeners == 2   \* subscribers of the color scheme in one page

Configs == {"light", "dark", "system"}

\* What localStorage.getItem('color-scheme') may return: null, what
\* saveConfig writes, and what other code may have written
StoredItems == {"null", "light", "dark", "system", "blue"}

\* cssClass: { light: 'light-theme', dark: 'dark-theme' }
cssClass == [light |-> "light-theme", dark |-> "dark-theme"]

\* loadConfig()
loadConfig(st) ==
    IF ~st.ok THEN "system"
    ELSE IF st.item = "light" \/ st.item = "dark" THEN st.item
    ELSE "system"

\* saveConfig(config)
saveConfig(st, config) ==
    IF ~st.ok THEN st
    ELSE IF config = "system" THEN [st EXCEPT !.item = "null"]
    ELSE [st EXCEPT !.item = config]

\* resolveSystem()
resolveSystem(m) == IF m.matches THEN "dark" ELSE "light"

\* currentState()
currentState(config, m) ==
    [config |-> config,
     resolved |-> IF config = "system" THEN resolveSystem(m) ELSE config]

\* An updateDocument that adds the class and removes none
updateDocumentAddsOnly(r, current) ==
    [classes |-> r.classes \cup {cssClass[current.resolved]},
     colorScheme |-> IF current.resolved = "dark" THEN "dark" ELSE "light"]

\* updateDocument() up to the listeners: the root element afterwards
updateDocument(r, current) ==
    [classes |-> (r.classes \ {cssClass.light, cssClass.dark})
                    \cup {cssClass[current.resolved]},
     colorScheme |-> IF current.resolved = "dark" THEN "dark" ELSE "light"]

\* state.listeners.forEach(listener => listener(current)): the calls made
\* when the listener at position thrower throws (0: none does)
Calls(listeners, thrower, current) ==
    [k \in 1 .. (IF thrower = 0 THEN Len(listeners) ELSE thrower) |->
        [listener |-> listeners[k], state |-> current]]

\* What a step of the color scheme found and did
ColorOp(name, arg, calls, threw) ==
    [id |-> 0, op |-> name, arg |-> arg,
     was |-> [scheme |-> scheme, media |-> media, root |-> root, storage |-> storage],
     calls |-> calls, threw |-> threw]

\* What the steps of the color scheme leave alone
ColourOnly == UNCHANGED <<core, unsubscribed, flushed, history, ids, smallHistory>>

\* The client script runs in a page: window.colorSchemeApi ??= initiateColorScheme(...)
SchemeLoad ==
    /\ IF scheme.def
       THEN UNCHANGED <<scheme, root>>
       ELSE LET config == loadConfig(storage)
            IN /\ scheme' = [def |-> TRUE, config |-> config, listeners |-> <<>>,
                             listening |-> TRUE, issued |-> 0]
               /\ root' = updateDocument(root, currentState(config, media))
    /\ last' = ColorOp("load", 0, <<>>, FALSE)
    /\ UNCHANGED <<media, storage>>
    /\ ColourOnly

\* The page is reloaded: a new window and a new document; localStorage and
\* the system preference stay
SchemeReload ==
    /\ scheme.def
    /\ scheme' = NoScheme
    /\ root' = NoTheme
    /\ media' = [media EXCEPT !.pending = FALSE]
    /\ last' = ColorOp("reload", 0, <<>>, FALSE)
    /\ UNCHANGED storage
    /\ ColourOnly

\* colorSchemeApi.config = config; the listener at position thrower throws
\* (0: none does), which ends the setter before saveConfig
SchemeSetConfig(config, thrower) ==
    /\ scheme.def
    /\ thrower \in 0 .. Len(scheme.listeners)
    /\ IF config = scheme.config
       THEN /\ thrower = 0
            /\ last' = ColorOp("set", config, <<>>, FALSE)
            /\ UNCHANGED <<scheme, root, storage>>
       ELSE LET current == currentState(config, media)
            IN /\ scheme' = [scheme EXCEPT !.config = config]
               /\ root' = updateDocument(root, current)
               /\ storage' = IF thrower = 0 THEN saveConfig(storage, config)
                             ELSE storage
               /\ last' = ColorOp("set", config,
                                  Calls(scheme.listeners, thrower, current),
                                  thrower # 0)
    /\ UNCHANGED media
    /\ ColourOnly

\* The system preference changes; the change event is queued
PreferenceChange ==
    /\ media' = [matches |-> ~media.matches, pending |-> TRUE]
    /\ last' = ColorOp("prefer", 0, <<>>, FALSE)
    /\ UNCHANGED <<scheme, root, storage>>
    /\ ColourOnly

\* The change event is delivered: onSystemChange, when it is still registered
OnSystemChange(thrower) ==
    /\ media.pending
    /\ media' = [media EXCEPT !.pending = FALSE]
    /\ IF scheme.def /\ scheme.listening /\ scheme.config = "system"
       THEN LET current == currentState(scheme.config, media)
            IN /\ thrower \in 0 .. Len(scheme.listeners)
               /\ root' = updateDocument(root, current)
               /\ last' = ColorOp("change", 0,
                                  Calls(scheme.listeners, thrower, current),
                                  thrower # 0)
       ELSE /\ thrower = 0
            /\ last' = ColorOp("change", 0, <<>>, FALSE)
            /\ UNCHANGED root
    /\ UNCHANGED <<scheme, storage>>
    /\ ColourOnly

\* colorSchemeApi.subscribe(sub) with a function not subscribed before
SchemeSubscribe ==
    /\ scheme.def
    /\ scheme.issued < MaxListeners
    /\ scheme' = [scheme EXCEPT !.listeners = Append(@, scheme.issued + 1),
                                !.issued = @ + 1]
    /\ last' = ColorOp("subscribe", scheme.issued + 1, <<>>, FALSE)
    /\ UNCHANGED <<media, root, storage>>
    /\ ColourOnly

\* The function subscribe returned for listener l is called
SchemeUnsubscribe(l) ==
    /\ scheme.def
    /\ l \in 1 .. scheme.issued
    /\ scheme' = [scheme EXCEPT !.listeners = SelectSeq(@, LAMBDA x : x # l)]
    /\ last' = ColorOp("unsubscribe", l, <<>>, FALSE)
    /\ UNCHANGED <<media, root, storage>>
    /\ ColourOnly

\* colorSchemeApi.dispose()
SchemeDispose ==
    /\ scheme.def
    /\ scheme' = [scheme EXCEPT !.listeners = <<>>, !.listening = FALSE]
    /\ last' = ColorOp("dispose", 0, <<>>, FALSE)
    /\ UNCHANGED <<media, root, storage>>
    /\ ColourOnly

\* What is outside the script: access to localStorage starts or stops
\* throwing, and other code writes the item
StorageChange(ok, item) ==
    /\ storage' = [ok |-> ok, item |-> item]
    /\ storage' # storage
    /\ last' = ColorOp("storage", 0, <<>>, FALSE)
    /\ UNCHANGED <<scheme, media, root>>
    /\ ColourOnly

NextColour ==
    \/ SchemeLoad
    \/ SchemeReload
    \/ \E config \in Configs, thrower \in 0 .. MaxListeners :
          SchemeSetConfig(config, thrower)
    \/ PreferenceChange
    \/ \E thrower \in 0 .. MaxListeners : OnSystemChange(thrower)
    \/ SchemeSubscribe
    \/ \E l \in 1 .. MaxListeners : SchemeUnsubscribe(l)
    \/ SchemeDispose
    \/ \E ok \in BOOLEAN, item \in StoredItems : StorageChange(ok, item)

SpecColour == Init /\ [][NextColour]_vars

\* ---------------------------------------------------------------------
\* C21 .. C30: the History overlay

\* This step is a call of the method name of the History: methods are called
\* by code outside the store, and every step of the store records what it
\* observes
StepOf(name) == stack = <<>> /\ Did(name)'

\* This step is the callback of the History appending an entry
AutoCaptured ==
    /\ NextSub # 0
    /\ NextSub = HistorySub
    /\ ~history.isApplyingHistory
    /\ history' # history

\* This step appends an entry, by capture() or by a notification
Captures == history.def /\ history'.def /\ (StepOf("capture") \/ AutoCaptured)

\* The log still begins with the entry made at construction
Untrimmed(h) == HasEntry(h, 0) /\ h.entries[1].label = "HISTORY_INITIAL_STATE"

\* The cursor is on the last entry
AtEnd(h) == h.currentIndex = Len(h.entries) - 1

\* undo() has just brought the cursor to the oldest entry
UndoneAll == history.def /\ Did("undo") /\ last.arg /\ history.currentIndex = 0

\* C21 (as claimed): on a History that has only captured, each capture adds
\* one entry to the log and makes canUndo() true, so that N captures leave
\* N+1 entries; when undo() has brought the cursor back to the oldest entry
\* canUndo() is false and the store state is getInitialState().
C21_Depth ==
    /\ [](UndoneAll => ~canUndo(history) /\ state = history.initialState)
    /\ [][(Captures /\ Untrimmed(history) /\ AtEnd(history))
            => /\ Len(history'.entries) = Len(history.entries) + 1
               /\ canUndo(history')]_vars

\* C21 (amended): the same as long as the log holds fewer than maxHistorySize
\* entries before the capture and still begins with the entry made at
\* construction.
C21_DepthUntrimmed ==
    /\ [](UndoneAll /\ Untrimmed(history)
            => ~canUndo(history) /\ state = history.initialState)
    /\ [][(Captures /\ Untrimmed(history) /\ AtEnd(history)
             /\ Len(history.entries) < history.maxHistorySize)
            => /\ Len(history'.entries) = Len(history.entries) + 1
               /\ Untrimmed(history')
               /\ canUndo(history')]_vars

\* Two captures of two states have been undone by two undo() calls: the log
\* has three entries, the cursor is on the first and the store is in the
\* state of construction.
C21_Witness ==
    /\ UndoneAll /\ Untrimmed(history)
    /\ stack = <<>>
    /\ Len(history.entries) = 3
    /\ history.entries[2].state.ref # history.initialState.ref
    /\ history.entries[3].state.ref # history.entries[2].state.ref
    /\ state = history.initialState

\* C22: when an entry is captured while the cursor is not on the last entry,
\* the entries after the cursor are discarded, the new entry (holding the
\* store state) is appended right after the cursor's entry, the cursor moves
\* to it, canRedo() is false, and the entries up to the old cursor are the
\* same as before.
C22_Branching ==
    [][(Captures /\ history.currentIndex >= 0 /\ ~AtEnd(history))
         => /\ Len(history'.entries) = history.currentIndex + 2
            /\ SubSeq(history'.entries, 1, history.currentIndex + 1)
                 = SubSeq(history.entries, 1, history.currentIndex + 1)
            /\ history'.entries[history.currentIndex + 2].state = state
            /\ history'.currentIndex = history.currentIndex + 1
            /\ ~canRedo(history')]_vars

\* An entry has been captured with the cursor on the first of three entries:
\* two entries are left, the second holds the store state, which is not the
\* state of the first.
C22_Witness ==
    /\ history.def /\ Did("capture")
    /\ last.idx = 0 /\ last.len = 3
    /\ Len(history.entries) = 2
    /\ history.currentIndex = 1
    /\ history.entries[2].state = state
    /\ state.ref # history.entries[1].state.ref

\* C23: for every configured maxHistorySize the log never holds more than
\* maxHistorySize entries, from construction onward.
C23_SizeBound ==
    history.def => Len(history.entries) <= history.maxHistorySize

\* jumpTo(index) was called with an index of the log
JumpValid == 0 <= last.to /\ last.to < last.len

\* C24: jumpTo(i) with 0 <= i < length sets the cursor to i, makes entry i's
\* state the store state and returns true, the entries staying as they are;
\* with any other index it returns false and leaves the cursor, the entries
\* and the store state unchanged.
C24_JumpTo ==
    /\ [](Did("jumpTo")
            => IF JumpValid
               THEN /\ last.arg
                    /\ history.currentIndex = last.to
                    /\ state = history.entries[last.to + 1].state
               ELSE /\ ~last.arg
                    /\ history.currentIndex = last.idx
                    /\ state.ref = last.prev)
    /\ [][StepOf("jumpTo")
            => /\ history'.entries = history.entries
               /\ ~JumpValid' => (history' = history /\ state' = state
                                   /\ stack' = stack)]_vars

\* jumpTo(0) has been performed from the last of three entries and has
\* changed the store state.
C24_Witness ==
    /\ Did("jumpTo") /\ last.arg /\ stack = <<>>
    /\ last.to = 0 /\ last.idx = 2 /\ last.len = 3
    /\ state.ref # last.prev
    /\ history.currentIndex = 0
    /\ Len(history.entries) = 3

\* The log and the cursor are the same after this step
LogKept ==
    /\ history'.entries = history.entries
    /\ history'.currentIndex = history.currentIndex

InitialEntry(h) ==
    [state |-> h.initialState, actions |-> <<>>, label |-> "HISTORY_INITIAL_STATE"]

\* C26: when clear() is over, whatever the state it was called in, the log is
\* the single entry labelled HISTORY_INITIAL_STATE holding the state captured
\* at construction (initialState is never assigned after construction), the
\* cursor is 0, canUndo() and canRedo() are false and the store state is that
\* state.
C26_Clear ==
    /\ []((history.def /\ Did("clear") /\ stack = <<>>)
            => /\ history.entries = <<InitialEntry(history)>>
               /\ history.currentIndex = 0
               /\ ~canUndo(history) /\ ~canRedo(history)
               /\ state = history.initialState)
    /\ [][history.def => history'.initialState = history.initialState]_vars

\* clear() is over; it was called with the cursor on the second entry of a
\* log filled to its maxHistorySize of three, in a store state other than
\* the one of construction.
C26_Witness ==
    /\ history.def /\ Did("clear") /\ stack = <<>>
    /\ last.len = 3 /\ last.idx = 1
    /\ history.maxHistorySize = 3
    /\ last.prev # history.initialState.ref
    /\ history.entries = <<InitialEntry(history)>>
    /\ state = history.initialState

\* This step is a call of a method of the History
HistoryCall == stack = <<>> /\ last'.id = 0 /\ "op" \in DOMAIN last'

\* This step is the store calling the callback the History subscribed
HistoryCallback == NextSub # 0 /\ NextSub = HistorySub

\* This step has appended to the log, after the cursor's entry, one entry
\* holding the store state and the action log of the notification in
\* progress, and has put the cursor on it
Appended ==
    LET n == Len(history'.entries)
    IN /\ n >= 1
       /\ history'.entries[n] = [state |-> state, actions |-> Top(stack).acts,
                                 label |-> "none"]
       /\ history'.currentIndex = n - 1
       /\ n = history.currentIndex + 2 \/ n = history.maxHistorySize
       /\ n <= history.currentIndex + 2

FailedLoop ==
    /\ InLoop
    /\ Top(stack).inv # 0
    /\ invs[Top(stack).inv].err # "none"

\* C28: an action of the store that throws adds no entry to the log and does
\* not move the cursor (so canUndo() keeps its value); when its promise
\* rejects the store state is the one it started from, which is the state of
\* the entry under the cursor when that entry held it.
C28_FailedAction ==
    /\ [][(history.def /\ FailedLoop) => LogKept]_vars
    /\ []((history.def /\ last.id # 0 /\ last.err # "none"
             /\ history.currentIndex >= 0 /\ CurrentState.ref = last.before)
            => state.ref = CurrentState.ref)

\* The registrations the History has in the store: those made after the
\* ones the store starts with
HistoryRegs == {k \in DOMAIN subscribers : subscribers[k].id > Len(Registrations)}

\* C29: whatever the start and stop calls, the History has at most one
\* registration in the store, the one it holds the unsubscribe function of,
\* and none when it is stopped, so that a notification calls its callback at
\* most once and not at all while stopped; startAutoCapture() while started
\* and stopAutoCapture() while stopped change nothing; a start while stopped
\* subscribes and a stop while started unsubscribes, leaving the log alone.
C29_StartStop ==
    /\ [](history.def
            => /\ Cardinality(HistoryRegs) <= 1
               /\ \A k \in HistoryRegs : subscribers[k].id = history.unsubscribe
               /\ history.unsubscribe # 0 => HistoryRegs # {}
               /\ HistoryCallback => HistorySub \notin Top(stack).visited)
    /\ [][(StepOf("start") \/ StepOf("stop"))
            => /\ LogKept
               /\ state' = state
               /\ (StepOf("start") /\ history.unsubscribe # 0)
                    => (history' = history /\ subscribers' = subscribers)
               /\ (StepOf("stop") /\ history.unsubscribe = 0)
                    => (history' = history /\ subscribers' = subscribers)
               /\ StepOf("start") => history'.unsubscribe # 0
               /\ StepOf("stop") => history'.unsubscribe = 0]_vars
    /\ [][(history.def /\ history'.def /\ history.unsubscribe = 0 /\ ~HistoryCall)
            => (history.clearing \/ LogKept)]_vars

\* A History that was constructed subscribed, stopped and started again is
\* called in a notification and has captured its state; the log holds the
\* initial entry and this one only, although the store had already left its
\* state of construction before: that change was made while stopped.
C29_Witness ==
    /\ history.def
    /\ history.unsubscribe = Len(Registrations) + 2
    /\ InLoop /\ Top(stack).inv # 0
    /\ history.unsubscribe \in Top(stack).visited
    /\ history.entries = <<InitialEntry(history),
                           [state |-> state, actions |-> Top(stack).acts,
                            label |-> "none"]>>
    /\ Top(stack).prev.ref # history.initialState.ref

\* The state dispose() leaves the History in
Disposed(h) ==
    /\ h.entries = <<>>
    /\ h.currentIndex = -1
    /\ h.unsubscribe = 0
    /\ ~h.isApplyingHistory

\* C30: after dispose() the History has no registration in the store and
\* its log is empty, and whatever comes next (a step of the store, or a call
\* of undo, redo, jumpTo, capture or clear) leaves the log empty, a call of
\* the History leaving the store state as it is.
C30_Dispose ==
    /\ []((history.def /\ Did("dispose"))
            => Disposed(history) /\ HistoryRegs = {})
    /\ [][(history.def /\ Did("dispose") /\ ~StepOf("start") /\ ~StepOf("stop")
             /\ ~StepOf("dispose"))
            => /\ history'.entries = <<>>
               /\ HistoryCall => state' = state]_vars

\* ---------------------------------------------------------------------
\* C31: the registry of uniqueId

\* The definition site the registry has for id is the one of url
SameSite(reg, id, url) ==
    \E k \in 1 .. Len(reg[id]) :
        /\ reg[id][k] = "@"
        /\ SubSeq(reg[id], 1, k - 1) = id
        /\ SubSeq(reg[id], k + 1, Len(reg[id])) = url.pathname

\* C31: every registered id has no '@' and is bound to one definition site;
\* a call with a URL succeeds and returns id exactly when id has no '@' and
\* is either not registered or registered from the same definition site, in
\* which case the registry is what it was; it then binds id to that site and
\* leaves the other ids alone; every call that throws leaves the registry
\* as it was.
C31_UniqueId ==
    /\ \A id \in DOMAIN ids :
          /\ ~Includes(id, "@")
          /\ \E p \in Pathnames : ids[id] = KeyOf(id, p)
          /\ Cardinality({p \in Pathnames : ids[id] = KeyOf(id, p)}) = 1
    /\ Did("uniqueId")
         => LET id == last.name
                known == id \in DOMAIN last.was
                accepted == /\ ~Includes(id, "@")
                            /\ ~known \/ SameSite(last.was, id, last.url)
            IN /\ last.url.ok => (last.threw = "none" <=> accepted)
               /\ ~last.url.ok => last.threw # "none"
               /\ last.threw = "none"
                    => /\ last.ret = [def |-> TRUE, val |-> id]
                       /\ id \in DOMAIN ids /\ SameSite(ids, id, last.url)
                       /\ DOMAIN ids = DOMAIN last.was \cup {id}
                       /\ \A x \in DOMAIN last.was : x # id => ids[x] = last.was[x]
                       /\ known => ids = last.was
               /\ last.threw # "none" => (ids = last.was /\ ~last.ret.def)

\* The id "a", registered from /x, has been refused from /y with two other
\* ids registered, and the registry is what it was.
C31_Witness ==
    /\ Did("uniqueId")
    /\ last.name = <<"a">>
    /\ last.threw = "Error: Duplicate id"
    /\ last.url.pathname = <<"/", "y">>
    /\ Cardinality(DOMAIN ids) = 3
    /\ ids[<<"a">>] = <<"a", "@", "/", "x">>
    /\ ids = last.was

\* ---------------------------------------------------------------------
\* C32 .. C34: the color scheme

\* The resolved scheme the API reports
Resolved == currentState(scheme.config, media).resolved

\* The calls of a notification that reaches every listener once with current
Once(listeners, current) ==
    [k \in 1 .. Len(listeners) |-> [listener |-> listeners[k], state |-> current]]

\* C32: while config is 'light' or 'dark', a change of the system preference
\* and the delivery of its event call no listener and change neither the
\* resolved scheme nor the root element; when config is set back to 'system'
\* the resolved scheme is the system preference of that moment and every
\* subscribed listener is called exactly once, with that state.
C32_Override ==
    /\ ((Did("prefer") \/ Did("change"))
          /\ last.was.scheme.def /\ last.was.scheme.config # "system")
         => /\ last.calls = <<>>
            /\ root = last.was.root
            /\ Resolved = last.was.scheme.config
    /\ (Did("set") /\ last.arg = "system" /\ last.was.scheme.config # "system")
         => /\ Resolved = resolveSystem(media)
            /\ root.classes = {cssClass[resolveSystem(media)]}
            /\ last.calls = Once(last.was.scheme.listeners,
                                 [config |-> "system",
                                  resolved |-> resolveSystem(media)])

\* The root element carries the class of the resolved scheme, not the other
\* one, and style.colorScheme is the resolved scheme
InSync ==
    /\ root.classes \cap {cssClass.light, cssClass.dark} = {cssClass[Resolved]}
    /\ root.colorScheme = Resolved

C34_Persistence ==
    /\ (Did("set") /\ last.arg # last.was.scheme.config /\ last.was.storage.ok)
         => /\ storage.item = IF last.arg = "system" THEN "null" ELSE last.arg
            /\ loadConfig(storage) = last.arg
    /\ (Did("load") /\ ~last.was.scheme.def)
         => scheme.config =
              IF storage.ok /\ storage.item \in {"light", "dark"}
              THEN storage.item ELSE "system"
    /\ (Did("set") /\ last.arg = last.was.scheme.config)
         => /\ storage = last.was.storage
            /\ scheme = last.was.scheme
            /\ last.calls = <<>>

----------------------------------------------------------------------------
\* C35 and C36: the notification and the rollback of a root call

\* C35: a root call (one that found batchCount at 0), called from unrelated
\* code or from a subscriber callback during a notification, that resolves,
\* ends its batch and leaves a state object other than the one it found, has
\* delivered one notification when its promise resolves.
C35_NotificationComplete ==
    (Settles /\ last.isRoot /\ last.ends /\ last.err = "none"
        /\ last.after # last.before)
        => last.notified = 1

\* C36: a root call whose body throws a falsy value (undefined, null, 0, '')
\* and which ends its batch has, when its promise rejects, the state object
\* it found in place and has notified no subscriber, as for a thrown Error.
C36_FalsyThrowRestores ==
    (Settles /\ last.isRoot /\ last.ends /\ last.thrown = "falsy")
        => /\ last.err = "falsy"
           /\ last.after = last.before
           /\ last.notified = 0

----------------------------------------------------------------------------
\* C37 .. C39: the cursor of the History, the History and the store

\* The log has an entry and the cursor is on one of its entries; while
\* clear() is delivering its notification the log is being rebuilt
CursorOk(h) ==
    h.clearing \/ (h.entries # <<>> /\ 0 <= h.currentIndex
                                    /\ h.currentIndex <= Len(h.entries) - 1)

\* C37: on a History with maxHistorySize >= 1, construction leaves a log
\* with an entry and the cursor on an entry of it, and every step other than
\* dispose() (a capture, undo, redo, jumpTo, clear, a step of the store)
\* keeps it so; a capture leaves the cursor on the newest entry, also when
\* it trimmed the oldest ones; undo() succeeds exactly when the cursor it
\* finds is above 0 and redo() exactly when it is below the last index.
C37_Cursor ==
    /\ [][(history'.def /\ history'.maxHistorySize >= 1 /\ ~StepOf("dispose")
             /\ (history.def => CursorOk(history)))
            => CursorOk(history')]_vars
    /\ [][(Captures /\ history.maxHistorySize >= 1)
            => (history'.entries # <<>> /\ AtEnd(history'))]_vars
    /\ []((Did("undo") => (last.arg <=> last.idx > 0))
            /\ (Did("redo") => (last.arg <=> last.idx < last.len - 1)))

\* capture() has just been called on a full log of two entries with the
\* cursor at its end: the oldest entry is gone, the log has two entries and
\* the cursor is on the newest.
C37_Witness ==
    /\ history.def /\ Did("capture")
    /\ history.maxHistorySize = 2
    /\ last.len = 2 /\ last.idx = 1
    /\ Len(history.entries) = 2 /\ history.currentIndex = 1
    /\ ~Untrimmed(history)
    /\ canUndo(history) /\ ~canRedo(history)

\* The store with one auto-capturing History (default shouldCapture, one
\* call at a time made by unrelated code), whose methods, and
\* restoreFromHistory, are called by unrelated code also while an action is
\* suspended
NextAgreement ==
    \/ AtRest /\ Len(invs) < MaxCalls /\ ExtCall /\ Observed /\ StoreOnly
    \/ \E i \in DOMAIN invs : BodyMutate(i) /\ Observed /\ StoreOnly
    \/ \E i \in DOMAIN invs : BodyAwait(i) /\ Observed /\ StoreOnly
    \/ \E i \in DOMAIN invs, e \in BodyErrors, sync \in BOOLEAN :
          BodyThrow(i, e, sync) /\ Observed /\ StoreOnly
    \/ \E i \in DOMAIN invs, sync \in BOOLEAN : BodyAbort(i, sync) /\ Observed /\ StoreOnly
    \/ \E i \in DOMAIN invs : BodyReturn(i) /\ Observed /\ StoreOnly
    \/ \E i \in DOMAIN invs : ResumeBody(i) /\ Observed /\ StoreOnly
    \/ \E i \in DOMAIN invs : Finish(i) /\ Observed /\ StoreOnly
    \/ NextSub # HistorySub /\ NotifyStep("true", "return") /\ LoopKeeps /\ StoreOnly
    \/ NotifyDone /\ Observed /\ StoreOnly
    \/ HistoryNotify(TRUE) /\ LoopKeeps
    \/ Construct(MaxHistory - 1, TRUE, FALSE)
    \/ Capture
    \/ Undo
    \/ Redo
    \/ \E index \in -1 .. MaxHistory - 1 : JumpTo(index)
    \/ Clear
    \/ HistoryDone
    \/ \E s \in Restorable : history.def /\ Restore(s)
    \/ ~(history.def /\ history.isApplyingHistory) /\ RestoreDone
          /\ UNCHANGED last /\ StoreOnly

SpecAgreement == Init /\ [][NextAgreement]_vars

\* Two History overlays on one store: `history` and `smallHistory`, each with
\* its own log, cursor, subscription and isApplyingHistory

\* The registration of the callback of smallHistory, 0 when it has none
SmallSub == IF smallHistory.def THEN smallHistory.unsubscribe ELSE 0

\* What is left unchanged by a step of smallHistory that changes only
\* smallHistory, state and stack
SmallFrame ==
    UNCHANGED <<nextRef, subscribers, batchCount, batchedActions, initialState,
                abortController, invs, seen, unsubscribed, flushed, history,
                ids, colour>>

\* What a step that calls a method of smallHistory found
SmallOp(name, res) ==
    [id |-> 0, op |-> name, arg |-> res, prev |-> state.ref,
     idx |-> smallHistory.currentIndex, len |-> Len(smallHistory.entries)]

\* new History(store, { maxHistorySize }) on a store that has a History
ConstructSmall(max) ==
    /\ stack = <<>>
    /\ invs = <<>>
    /\ history.def /\ ~smallHistory.def
    /\ Cardinality(Issued) <= MaxSubs
    /\ LET id == Cardinality(Issued) + 1
           h == [def |-> TRUE, maxHistorySize |-> max, autoCapture |-> TRUE,
                 custom |-> FALSE, initialState |-> state, entries |-> <<>>,
                 currentIndex |-> -1, unsubscribe |-> 0,
                 isApplyingHistory |-> FALSE, clearing |-> FALSE]
       IN /\ smallHistory' = [captureInitialState(h) EXCEPT !.unsubscribe = id]
          /\ subscribers' = Append(subscribers, [id |-> id, hasFilter |-> FALSE])
    /\ last' = [id |-> 0]
    /\ UNCHANGED <<state, nextRef, batchCount, batchedActions, initialState,
                   abortController, invs, stack, seen, unsubscribed, flushed,
                   history, ids, colour>>

\* A callback of smallHistory that captures nothing while the other
\* overlay applies an entry
SmallNotifyShared ==
    /\ NextSub # 0
    /\ NextSub = SmallSub
    /\ LET f == Top(stack)
           ev == [sub |-> NextSub, filt |-> "none", called |-> TRUE, acts |-> f.acts]
       IN /\ stack' = [stack EXCEPT ![Len(stack)] =
                          [f EXCEPT !.evals = Append(@, ev),
                                    !.visited = @ \cup {NextSub}]]
          /\ smallHistory' =
                IF smallHistory.isApplyingHistory \/ history.isApplyingHistory
                THEN smallHistory
                ELSE captureState(smallHistory, state, f.acts, "none")
    /\ UNCHANGED state
    /\ SmallFrame

\* The loop gets to the callback of smallHistory: nothing while it applies
\* an entry of its own, captureState(actions) otherwise
SmallNotify ==
    /\ NextSub # 0
    /\ NextSub = SmallSub
    /\ LET f == Top(stack)
           ev == [sub |-> NextSub, filt |-> "none", called |-> TRUE, acts |-> f.acts]
       IN /\ stack' = [stack EXCEPT ![Len(stack)] =
                          [f EXCEPT !.evals = Append(@, ev),
                                    !.visited = @ \cup {NextSub}]]
          /\ smallHistory' =
                IF smallHistory.isApplyingHistory
                THEN smallHistory
                ELSE captureState(smallHistory, state, f.acts, "none")
    /\ UNCHANGED state
    /\ SmallFrame

\* smallHistory.undo() and smallHistory.redo(), by code outside the store
SmallMove(name, can, k) ==
    /\ stack = <<>>
    /\ smallHistory.def
    /\ last' = SmallOp(name, can)
    /\ IF can
       THEN IF HasEntry(smallHistory, k)
            THEN /\ Restoring(smallHistory.entries[k + 1].state, stack)
                 /\ smallHistory' = [smallHistory EXCEPT
                                       !.currentIndex = k,
                                       !.isApplyingHistory =
                                           smallHistory.entries[k + 1].state.ref # state.ref]
            ELSE /\ smallHistory' = [smallHistory EXCEPT !.currentIndex = k]
                 /\ UNCHANGED <<state, stack>>
       ELSE UNCHANGED <<smallHistory, state, stack>>
    /\ SmallFrame

SmallUndo ==
    /\ smallHistory.def
    /\ SmallMove("small.undo", canUndo(smallHistory), smallHistory.currentIndex - 1)

SmallRedo ==
    /\ smallHistory.def
    /\ SmallMove("small.redo", canRedo(smallHistory), smallHistory.currentIndex + 1)

\* the notification of smallHistory's applyHistoryEntry is over: the finally
SmallDone ==
    /\ InLoop
    /\ smallHistory.def /\ smallHistory.isApplyingHistory
    /\ Top(stack).inv = 0
    /\ Top(stack).cur = 0
    /\ Pending(Top(stack)) = <<>>
    /\ stack' = Pop(stack)
    /\ smallHistory' = [smallHistory EXCEPT !.isApplyingHistory = FALSE]
    /\ UNCHANGED <<state, last>>
    /\ SmallFrame

\* The store (synchronous actions, one call at a time, subscribers that may
\* throw) with the two overlays, both capturing automatically
NextOverlays ==
    \/ AtRest /\ Len(invs) < MaxCalls /\ ExtCall /\ Observed /\ StoreOnly
    \/ \E i \in DOMAIN invs : BodyMutate(i) /\ Observed /\ StoreOnly
    \/ \E i \in DOMAIN invs : BodyReturn(i) /\ Observed /\ StoreOnly
    \/ \E i \in DOMAIN invs : Finish(i) /\ Observed /\ StoreOnly
    \/ \E cb \in {"return", "throw"} :
          NextSub \notin {HistorySub, SmallSub} /\ NotifyStep("true", cb)
             /\ LoopKeeps /\ StoreOnly
    \/ NotifyDone /\ Observed /\ StoreOnly
    \/ HistoryNotify(TRUE) /\ LoopKeeps
    \/ SmallNotify /\ LoopKeeps
    \/ Construct(MaxHistory, TRUE, FALSE)
    \/ ConstructSmall(MaxHistory)
    \/ Undo
    \/ Redo
    \/ \E index \in 0 .. MaxHistory - 1 : JumpTo(index)
    \/ Clear
    \/ HistoryDone
    \/ SmallUndo
    \/ SmallRedo
    \/ SmallDone

SpecOverlays == Init /\ [][NextOverlays]_vars

\* C38: with an auto-capturing History of the default predicate, whenever
\* no action and no notification is in progress the state object of the
\* store is the one held by the entry under the cursor.
C38_Agreement ==
    (history.def /\ AtRest) =>
        /\ HasEntry(history, history.currentIndex)
        /\ state.ref = CurrentState.ref

\* The notification on top of the stack is the one of a restore made by
\* `history` (undo, redo, jumpTo or clear) that changed the store state
RestoreOfHistory ==
    /\ InLoop /\ Top(stack).inv = 0
    /\ history.def /\ history.isApplyingHistory

\* The newest entry of h holds state object st and a HISTORY_RESTORE action
RestoreEntry(h, st) ==
    /\ h.entries # <<>>
    /\ h.entries[Len(h.entries)].state.ref = st.ref
    /\ Len(h.entries[Len(h.entries)].actions) = 1
    /\ h.entries[Len(h.entries)].actions[1].type = "HISTORY_RESTORE"

\* C39: in the notification of a restore made by `history` that changed the
\* store state, the callback of the other auto-capturing overlay is not
\* stopped by the guard of `history`: it appends an entry holding the
\* restored state and a HISTORY_RESTORE action, after cutting its own redo
\* entries, and its cursor is on that entry; no step of that notification
\* changes the log or the cursor of `history` (clear() seeds its log when
\* the notification is over); and when the notification is over the other
\* overlay, if it was constructed, has been called.
C39_Overlays ==
    /\ [][(RestoreOfHistory /\ NextSub # 0 /\ NextSub = SmallSub)
            => /\ RestoreEntry(smallHistory', state)
               /\ AtEnd(smallHistory')
               /\ Len(smallHistory'.entries) <= smallHistory.currentIndex + 2
               /\ history' = history]_vars
    /\ [][(RestoreOfHistory /\ RestoreOfHistory')
            => (history'.entries = history.entries
                  /\ history'.currentIndex = history.currentIndex)]_vars
    /\ [][(RestoreOfHistory /\ ~RestoreOfHistory' /\ smallHistory.def)
            => (SmallSub \in Top(stack).visited
                  /\ RestoreEntry(smallHistory, state))]_vars

\* history.undo() has been notified to smallHistory, which had undone an
\* entry of its own before: its redo entry is gone, its newest entry holds
\* the state restored by `history` and its cursor is on it.
C39_Witness ==
    /\ RestoreOfHistory /\ Did("undo")
    /\ smallHistory.def
    /\ SmallSub \in Top(stack).visited
    /\ RestoreEntry(smallHistory, state)
    /\ AtEnd(smallHistory)
    /\ Len(smallHistory.entries) = 2
    /\ smallHistory.entries[1].label = "HISTORY_INITIAL_STATE"
    /\ Len(history.entries) = 3

====
